---- MODULE Spec2Model ----
(***************************************************************************)
(* One run of the DBMonitor reporter: main() calls the probes one after    *)
(* another, stores each result under its section name in report_data and   *)
(* hands report_data to ProfessionalPDFGenerator.generate_pdf.             *)
(*                                                                         *)
(* Numbers that the code rounds to two decimals are kept as integers in    *)
(* hundredths (15.62 is 1562); the idle value that top prints with one     *)
(* decimal is kept in tenths (95.0 is 950).                                *)
(***************************************************************************)
EXTENDS Integers, Sequences, FiniteSets, TLC

VARIABLES
    config,       \* the content of config/db_config.yaml during the run
    dbRows,       \* the database snapshot: rows every statistics view holds
    pc,           \* the function main() is executing, or generate_pdf/done/crashed
    conn,         \* TRUE while the running DB probe is inside its with-block
    pgOpen,       \* PostgreSQL sessions currently open
    pgOpened,     \* PostgreSQL sessions opened so far
    ssh,          \* the paramiko client: none, open, closed
    io,           \* what the remote host answered to the SSH probe
    local,        \* the dict the running composite probe is filling
    report_data,  \* main()'s report_data, a dict in insertion order
    warnings,     \* the warnings printed so far
    trace,        \* call/return/raise events of the probes, in order
    log,          \* reads and rewrites of the YAML file, ssh.connect calls
    call,         \* the function applied on its own, with its arguments
    answer        \* what that application gave

\* The variables of a run of main().
run == <<config, dbRows, pc, conn, pgOpen, pgOpened, ssh, io, local,
         report_data, warnings, trace, log>>

vars == <<config, dbRows, pc, conn, pgOpen, pgOpened, ssh, io, local,
          report_data, warnings, trace, log, call, answer>>

\* No function has been applied on its own.
NoCall == [fn |-> "none"]

\* Rows a statistics view holds in the snapshots that are explored.
MaxRows == 2

----------------------------------------------------------------------------
(* Strings whose characters matter are sequences of one-character strings. *)

h_localhost == <<"l","o","c","a","l","h","o","s","t">>
h_127_0_0_1 == <<"1","2","7",".","0",".","0",".","1">>
h_0_0_0_1   == <<"0",".","0",".","0",".","1">>
h_v6_loop   == <<":",":","1">>
h_LOCALHOST == <<"L","O","C","A","L","H","O","S","T">>
h_Localhost == <<"L","o","c","a","l","h","o","s","t">>
h_remote    == <<"d","b",".","e","x","a","m","p","l","e",".","n","e","t">>
h_0_0_0_0   == <<"0",".","0",".","0",".","0">>

\* cpu_ram.py line 35
localhost_hosts == {h_localhost, h_127_0_0_1, h_0_0_0_1, h_v6_loop}

Hosts == localhost_hosts \cup {h_LOCALHOST, h_Localhost, h_remote, h_0_0_0_0}

\* The keys get_connection reads from the descriptor.
RequiredKeys == {"host", "port", "user", "password", "dbname"}

\* An optional key of the descriptor: <<>> when the key is not in the file,
\* <<value>> when it is.  The same shape stands for Python's None / a string.
Absent == <<>>

\* cpu_ram.py lines 50-52: the optional keys the remote probe looks up.
\* An ssh_key of "" is a key left empty in the file.
SshOptions ==
    [ssh_user     : {Absent, <<"admin">>},
     ssh_password : {Absent, <<"secret">>},
     ssh_key      : {Absent, <<"">>, <<"/keys/id_rsa">>}]

\* A descriptor with none of the optional keys.
NoSsh == [ssh_user |-> Absent, ssh_password |-> Absent, ssh_key |-> Absent]

\* A descriptor with the five required keys and the given host and options.
Descriptor(h, options) ==
    [file |-> TRUE, keys |-> RequiredKeys, host |-> h, ssh |-> options]

\* file: the YAML file can be opened and has a "database" mapping.
Configs ==
    {[file |-> TRUE, keys |-> ks, host |-> h, ssh |-> NoSsh] :
        ks \in SUBSET RequiredKeys, h \in Hosts}
    \cup {[file |-> FALSE, keys |-> {}, host |-> h_remote, ssh |-> NoSsh]}

\* load_config: raises when the file or its "database" mapping is missing.
load_config_raises(cfg) == ~cfg.file

\* A variant that looks a key up only when the driver asks for it: a
\* descriptor without password or dbname still reaches psycopg2.connect.
get_connection_raises_lazy(cfg) ==
    load_config_raises(cfg) \/ ~({"host", "port", "user"} \subseteq cfg.keys)

\* get_connection up to the call of psycopg2.connect: every cfg[...] lookup
\* is evaluated before the connection is attempted.
get_connection_raises(cfg) ==
    load_config_raises(cfg) \/ ~(RequiredKeys \subseteq cfg.keys)

----------------------------------------------------------------------------
(* Python dicts keep insertion order: a dict is a sequence of <<key, value>>. *)

Keys(d) == [i \in DOMAIN d |-> d[i][1]]

HasKey(d, k) == \E i \in DOMAIN d : d[i][1] = k

Get(d, k) == d[CHOOSE i \in DOMAIN d : d[i][1] = k][2]

Put(d, k, v) ==
    IF HasKey(d, k)
    THEN [i \in DOMAIN d |-> IF d[i][1] = k THEN <<k, v>> ELSE d[i]]
    ELSE Append(d, <<k, v>>)

----------------------------------------------------------------------------
(* round(x, 2) of Python on the quotient num/den, in hundredths: the       *)
(* nearest hundredth, an exact tie going to the even one.                  *)

RoundHalfUp(num, den) ==
    LET q == num \div den
        r == num % den
    IN  IF 2 * r >= den THEN q + 1 ELSE q

RoundHalfEven(num, den) ==
    LET q == num \div den
        r == num % den
    IN  IF 2 * r < den THEN q
        ELSE IF 2 * r > den THEN q + 1
        ELSE IF q % 2 = 0 THEN q ELSE q + 1

\* round(num / den, 2) where num / den is exact in binary floating point
\* (den a power of two), the result in hundredths.
round2_half_up(num, den) == RoundHalfUp(num * 100, den)

round2(num, den) == RoundHalfEven(num * 100, den)

\* round((used / total) * 100, 2): the quotient and the product are rounded
\* to doubles before round() sees them, so where the exact value lies midway
\* between two hundredths the double may fall on either side; everywhere
\* else the result is the nearest hundredth.
round_pct(used, total) ==
    LET q == (used * 10000) \div total
        r == (used * 10000) % total
    IN  IF 2 * r = total THEN {q, q + 1} ELSE {RoundHalfEven(used * 10000, total)}

----------------------------------------------------------------------------
(* What the remote host prints.  The line of top is a sequence of fields   *)
(* "<number><sep><label>"; the output of free -m is a sequence of lines,   *)
(* each a sequence of whitespace-separated fields.                         *)

Tok(num, sep, label) == [num |-> num, sep |-> sep, label |-> label]

Word == [isInt |-> FALSE, n |-> 0]
Num(n) == [isInt |-> TRUE, n |-> n]

TopLines ==
    { <<Tok(30, " ", "us"), Tok(20, " ", "sy"), Tok(950, " ", "id"), Tok(0, " ", "wa")>>,
      <<Tok(877, " ", "us"), Tok(0, " ", "sy"), Tok(123, " ", "id")>>,
      <<Tok(30, "%", "us"), Tok(20, "%", "sy"), Tok(950, "%", "id")>>,
      <<Tok(0, " ", "us"), Tok(0, " ", "sy"), Tok(1005, " ", "id")>>,
      <<>> }

\* ok: exec_command and stdout.read() returned; line: the decoded output.
TopOutputs ==
    {[ok |-> TRUE, line |-> l] : l \in TopLines} \cup {[ok |-> FALSE, line |-> <<>>]}

FreeHeader == <<Word, Word, Word, Word>>

MemTriples ==
    {<<16000, 4000, 12000>>, <<160, 23, 130>>, <<100, 150, 0>>, <<0, 0, 0>>}

FreeLines ==
    { <<FreeHeader, <<Word, Num(t[1]), Num(t[2]), Num(t[3]), Num(7)>>>> : t \in MemTriples }
    \cup { <<>>,
           <<FreeHeader>>,
           <<FreeHeader, <<Word, Num(16000), Word, Num(12000)>>>>,
           <<FreeHeader, <<Word, Num(16000), Num(4000)>>>> }

FreeOutputs ==
    {[ok |-> TRUE, lines |-> l] : l \in FreeLines} \cup {[ok |-> FALSE, lines |-> <<>>]}

\* The output of a command that was never run.
NotRun == [ok |-> FALSE, line |-> <<>>, lines |-> <<>>]

\* re.search(r"(\d+\.\d+)\s*id", cpu_line): the first decimal number that is
\* followed, after optional whitespace, by "id"; 0 when there is none.
cpu_match(line) ==
    LET hits == {i \in DOMAIN line : line[i].sep = " " /\ line[i].label = "id"}
    IN  IF hits = {} THEN 0 ELSE CHOOSE i \in hits : \A j \in hits : i <= j

\* cpu_ram.py lines 68-72, in hundredths.
cpu_percent(line) ==
    IF cpu_match(line) # 0 THEN 10000 - line[cpu_match(line)].num * 10 ELSE 0

\* Python's s[a:b] on a sequence, a and b counted from 0.
Slice(s, a, b) == SubSeq(s, a + 1, IF b < Len(s) THEN b ELSE Len(s))

\* mem_info[1:4] of the second line of free -m.
mem_fields(lines) == Slice(lines[2], 1, 4)

\* cpu_ram.py lines 77-79 raise: IndexError (fewer than two lines), ValueError
\* (a field that is no integer, or not three fields to unpack),
\* ZeroDivisionError (total_mb = 0).
mem_raises(lines) ==
    \/ Len(lines) < 2
    \/ Len(mem_fields(lines)) # 3
    \/ \E i \in DOMAIN mem_fields(lines) : ~mem_fields(lines)[i].isInt
    \/ mem_fields(lines)[1].n = 0

HostMetrics(cpu, ram, total, used, avail) ==
    [system_cpu_percent |-> cpu, system_ram_percent |-> ram,
     system_ram_total_gb |-> total, system_ram_used_gb |-> used,
     system_ram_available_gb |-> avail]

\* cpu_ram.py lines 93-99
ZeroMetrics == HostMetrics(0, 0, 0, 0, 0)

\* cpu_ram.py line 79: the values ram_percent can take.
ram_percent(lines) ==
    round_pct(mem_fields(lines)[2].n, mem_fields(lines)[1].n)

\* cpu_ram.py lines 78-89: the record of a probe whose commands all parsed.
remote_metrics(line, lines, ram) ==
    LET total_mb == mem_fields(lines)[1].n
        used_mb  == mem_fields(lines)[2].n
        free_mb  == mem_fields(lines)[3].n
    IN  HostMetrics(cpu_percent(line),
                    ram,
                    round2(total_mb, 1024),
                    round2(used_mb, 1024),
                    round2(free_mb, 1024))

\* What psutil reports on the reporter's own machine (lines 14-20).
LocalSamples ==
    { HostMetrics(1250, 4310, 1562, 673, 889),
      HostMetrics(9900, 9120, 800, 730, 70) }

----------------------------------------------------------------------------
(* The program: the calls main() makes, flattened in the order of the      *)
(* source.  section is the key of report_data the call contributes to, key *)
(* the key inside the composite probe's own dict ("" when the result is    *)
(* the section itself), last marks the call after which the composite      *)
(* probe returns and main() assigns the section.                           *)

Call(fn, section, key, last) ==
    [fn |-> fn, section |-> section, key |-> key, last |-> last]

\* cpu_ram.py lines 8-28
get_cpu_ram_usage ==
    << Call("_is_localhost_connection", "CPU/RAM Usage", "", FALSE),
       Call("_get_remote_system_metrics", "CPU/RAM Usage", "system_metrics", FALSE),
       Call("get_postgres_server_metrics", "CPU/RAM Usage", "postgres_metrics", TRUE) >>

\* cache_hit.py lines 3-16
get_cache_hit_ratio ==
    << Call("get_total_cache_hit_ratio", "Cache Hit Ratio", "total", FALSE),
       Call("get_per_table_cache_hit_ratio", "Cache Hit Ratio", "per_table", FALSE),
       Call("get_index_heap_ratio", "Cache Hit Ratio", "index_heap_ratio", TRUE) >>

\* storage_usage.py lines 3-19
get_storage_usage ==
    << Call("get_database_storage", "Storage Usage", "databases", FALSE),
       Call("get_table_storage", "Storage Usage", "tables", FALSE),
       Call("get_index_storage", "Storage Usage", "indexes", FALSE),
       Call("get_index_usage", "Storage Usage", "index_usage", TRUE) >>

\* A variant that collects the storage section before the cache section.
main_storage_first ==
    << Call("get_long_queries", "Long Queries", "", TRUE),
       Call("get_frequent_queries", "Frequent Queries", "", TRUE) >>
    \o get_cpu_ram_usage
    \o get_storage_usage
    \o get_cache_hit_ratio
    \o << Call("get_replication_delay", "Replication Delay", "", TRUE) >>

\* main.py lines 12-17
main ==
    << Call("get_long_queries", "Long Queries", "", TRUE),
       Call("get_frequent_queries", "Frequent Queries", "", TRUE) >>
    \o get_cpu_ram_usage
    \o get_cache_hit_ratio
    \o get_storage_usage
    \o << Call("get_replication_delay", "Replication Delay", "", TRUE) >>

\* The functions that open a PostgreSQL session with get_connection().
DbProbes ==
    {main[i].fn : i \in DOMAIN main}
    \ {"_is_localhost_connection", "_get_remote_system_metrics"}

\* The local strategy runs inline where the remote one is called.
Position(fn) ==
    LET f == IF fn = "psutil" THEN "_get_remote_system_metrics" ELSE fn
    IN  CHOOSE i \in DOMAIN main : main[i].fn = f

\* Where main() continues once fn has returned (line 20 after the last probe).
NextPc(fn) ==
    IF Position(fn) = Len(main) THEN "generate_pdf" ELSE main[Position(fn) + 1].fn

\* A variant that returns the host record alone.
Merge_system_only(a, b) == a

\* {**system_metrics, **postgres_metrics}: the right operand wins a collision.
Merge(a, b) == b @@ a

\* cpu_ram.py lines 135-142
DefaultPgMetrics ==
    [postgres_db_size |-> "N/A", postgres_shared_buffers_mb |-> 0,
     postgres_work_mem_mb |-> 0, postgres_maintenance_work_mem_mb |-> 0,
     postgres_active_connections |-> 0, postgres_active_queries |-> 0]

\* cpu_ram.py lines 125-132, result and conn_result being the two rows fetched.
PgMetrics(result, conn_result) ==
    [postgres_db_size |-> result[1],
     postgres_shared_buffers_mb |-> IF result[2] # 0 THEN round2(result[2], 1024) ELSE 0,
     postgres_work_mem_mb |-> IF result[3] # 0 THEN round2(result[3], 1024) ELSE 0,
     postgres_maintenance_work_mem_mb |-> IF result[4] # 0 THEN round2(result[4], 1024) ELSE 0,
     postgres_active_connections |-> conn_result[1],
     postgres_active_queries |-> conn_result[2]]

\* What a probe returns when its statements succeed on the snapshot: a list
\* of rows, one row for fetchone, the metrics record for the server probe.
Fetched(fn, rows) ==
    IF fn = "get_postgres_server_metrics"
    THEN PgMetrics(<<"7977 kB", 16384, 4096, 65536>>, <<rows + 1, 1>>)
    ELSE IF fn = "get_total_cache_hit_ratio" THEN <<9 * rows, rows>>
    ELSE [i \in 1..rows |-> i]

Event(ev, fn) == [ev |-> ev, fn |-> fn]

----------------------------------------------------------------------------
Init ==
    /\ config \in Configs
    /\ dbRows \in 0..MaxRows
    /\ pc = main[1].fn
    /\ conn = FALSE
    /\ pgOpen = 0
    /\ pgOpened = 0
    /\ ssh = "none"
    /\ io = [connect |-> "none", top |-> NotRun, free |-> NotRun]
    /\ local = <<>>
    /\ report_data = <<>>
    /\ warnings = <<>>
    /\ trace = <<>>
    /\ log = <<>>
    /\ call = NoCall
    /\ answer = NoCall

\* A variant that leaves a section out of report_data when its probe
\* returned no rows.
Return_skip_empty(fn, result) ==
    LET c    == main[Position(fn)]
        mine == IF c.key = "" THEN local ELSE Put(local, c.key, result)
        value == IF c.key = "" THEN result
                 ELSE IF c.section = "CPU/RAM Usage"
                      THEN Merge(Get(mine, "system_metrics"), Get(mine, "postgres_metrics"))
                      ELSE mine
    IN  /\ local' = IF c.last THEN <<>> ELSE mine
        /\ report_data' = IF c.last /\ ~(c.key = "" /\ result = <<>>)
                          THEN Put(report_data, c.section, value)
                          ELSE report_data
        /\ pc' = NextPc(fn)

\* fn returns result to its caller: the composite probe stores it under key;
\* after its last call the composite returns and main() assigns the section.
Return(fn, result) ==
    LET c    == main[Position(fn)]
        mine == IF c.key = "" THEN local ELSE Put(local, c.key, result)
        value == IF c.key = "" THEN result
                 ELSE IF c.section = "CPU/RAM Usage"
                      THEN Merge(Get(mine, "system_metrics"), Get(mine, "postgres_metrics"))
                      ELSE mine
    IN  /\ local' = IF c.last THEN <<>> ELSE mine
        /\ report_data' = IF c.last THEN Put(report_data, c.section, value)
                          ELSE report_data
        /\ pc' = NextPc(fn)

\* An exception leaves fn and nothing catches it: main() has no handler, the
\* run ends with a traceback.
Propagate(fn) ==
    /\ pc' = "crashed"
    /\ trace' = trace \o <<Event("raise", fn)>>
    /\ UNCHANGED <<local, report_data, warnings>>

\* An exception inside the with-block of a DB probe.  Only
\* get_postgres_server_metrics has a handler (lines 133-142).
ProbeRaises(fn, entered) ==
    IF fn = "get_postgres_server_metrics"
    THEN /\ warnings' = Append(warnings, "postgres")
         /\ trace' = trace \o entered \o <<Event("return", fn)>>
         /\ Return(fn, DefaultPgMetrics)
    ELSE /\ pc' = "crashed"
         /\ trace' = trace \o entered \o <<Event("raise", fn)>>
         /\ UNCHANGED <<local, report_data, warnings>>

\* db.get(key, default) on an optional key of the descriptor.
dict_get(db, key, default) ==
    IF db.ssh[key] = Absent THEN default ELSE db.ssh[key]

\* Python's truth value of an optional string: None and "" are false.
truthy(v) == v # Absent /\ v # <<"">>

\* cpu_ram.py line 50
ssh_user(db) == dict_get(db, "ssh_user", <<"postgres">>)

\* cpu_ram.py line 51
ssh_pass(db) == dict_get(db, "ssh_password", Absent)

\* cpu_ram.py line 52
ssh_key(db) == dict_get(db, "ssh_key", Absent)

\* The keyword arguments of no ssh.connect call.
NoArgs ==
    [hostname |-> <<>>, username |-> Absent, password |-> Absent,
     key_filename |-> Absent]

\* A variant that hands the password to the key branch as well.
connect_args_with_password(db) ==
    [hostname |-> db.host, username |-> ssh_user(db),
     password |-> ssh_pass(db),
     key_filename |-> IF truthy(ssh_key(db)) THEN ssh_key(db) ELSE Absent]

\* cpu_ram.py lines 58-61: the arguments of the one ssh.connect call (the
\* timeout and the port are the same in both branches).
connect_args(db) ==
    IF truthy(ssh_key(db))
    THEN [hostname |-> db.host, username |-> ssh_user(db),
          password |-> Absent, key_filename |-> ssh_key(db)]
    ELSE [hostname |-> db.host, username |-> ssh_user(db),
          password |-> ssh_pass(db), key_filename |-> Absent]

\* One entry of the log: the descriptor a function read from the file, the
\* descriptor another process wrote to it, or the arguments of ssh.connect.
LogEntry(op, by, db, args) == [op |-> op, by |-> by, db |-> db, args |-> args]

\* yaml.safe_load(f)["database"] by function fn: what the file holds now.
Read(fn) == LogEntry("read", fn, config, NoArgs)

\* with get_connection() as conn: load_config, then psycopg2.connect.
Connect(fn) ==
    /\ pc = fn
    /\ fn \in DbProbes
    /\ ~conn
    /\ \E connected \in BOOLEAN :
        IF get_connection_raises(config) \/ ~connected
        THEN /\ ProbeRaises(fn, <<Event("call", fn)>>)
             /\ UNCHANGED <<conn, pgOpen, pgOpened>>
        ELSE /\ conn' = TRUE
             /\ pgOpen' = pgOpen + 1
             /\ pgOpened' = pgOpened + 1
             /\ trace' = Append(trace, Event("call", fn))
             /\ UNCHANGED <<pc, local, report_data, warnings>>
    /\ log' = Append(log, Read("get_connection"))
    /\ UNCHANGED <<call, answer, config, dbRows, ssh, io>>

\* One SQL statement: its verb and the relation it names.
Sql(verb, relation) == [verb |-> verb, relation |-> relation]

\* A variant whose server probe fills a temporary table from a program, as
\* the unwired cpu_ram variant does.
SqlOf_copy_from_program(fn) ==
    IF fn = "get_postgres_server_metrics"
    THEN <<Sql("CREATE", "temp_metrics"), Sql("COPY", "temp_metrics"),
           Sql("SELECT", "temp_metrics")>>
    ELSE <<Sql("SELECT", "pg_catalog")>>

\* The statements a probe hands to cur.execute, in order (long_queries.py
\* 7-26, frequent_queries.py 7-25, cpu_ram.py 106-122, cache_hit.py 20-69,
\* storage_usage.py 23-101, replication_delay.py 4-7).
SqlOf(fn) ==
    IF fn = "get_postgres_server_metrics"
    THEN <<Sql("SELECT", "pg_settings"), Sql("SELECT", "pg_stat_activity")>>
    ELSE IF fn \in {"get_long_queries", "get_frequent_queries"}
    THEN <<Sql("SELECT", "pg_stat_statements")>>
    ELSE IF fn = "get_total_cache_hit_ratio"
    THEN <<Sql("SELECT", "pg_stat_database")>>
    ELSE IF fn \in {"get_per_table_cache_hit_ratio", "get_index_heap_ratio"}
    THEN <<Sql("SELECT", "pg_statio_user_tables")>>
    ELSE IF fn = "get_database_storage" THEN <<Sql("SELECT", "pg_database")>>
    ELSE IF fn = "get_table_storage" THEN <<Sql("SELECT", "pg_tables")>>
    ELSE IF fn = "get_index_storage" THEN <<Sql("SELECT", "pg_indexes")>>
    ELSE IF fn = "get_index_usage" THEN <<Sql("SELECT", "pg_class")>>
    ELSE <<Sql("SELECT", "pg_stat_replication")>>

\* The rows the database holds once the statements are committed: a SELECT
\* leaves them, an INSERT or a COPY adds one, a DELETE removes one.
RECURSIVE Committed(_, _)
Committed(sql, rows) ==
    IF sql = <<>> THEN rows
    ELSE LET verb == Head(sql).verb
         IN  Committed(Tail(sql),
                       IF verb \in {"INSERT", "COPY"} THEN rows + 1
                       ELSE IF verb = "DELETE" /\ rows > 0 THEN rows - 1
                       ELSE rows)

\* cur.execute(query); return cur.fetchall(), then the exit of the with-block:
\* psycopg2's connection context manager commits or rolls back the
\* transaction and does not close the session.
Execute(fn) ==
    /\ pc = fn
    /\ fn \in DbProbes
    /\ conn
    /\ conn' = FALSE
    /\ \E executed \in BOOLEAN :
        IF executed
        THEN /\ trace' = Append(trace, Event("return", fn))
             /\ Return(fn, Fetched(fn, dbRows))
             /\ dbRows' = Committed(SqlOf(fn), dbRows)
             /\ UNCHANGED warnings
        ELSE /\ ProbeRaises(fn, <<>>)
             /\ UNCHANGED dbRows
    /\ UNCHANGED <<call, answer, config, pgOpen, pgOpened, ssh, io, log>>

\* A session no variable refers to any more is closed when the interpreter
\* reclaims the connection object; the program does not say when.
Reclaim ==
    /\ pc \notin {"done", "crashed"}
    /\ pgOpen > (IF conn THEN 1 ELSE 0)
    /\ pgOpen' = (IF conn THEN 1 ELSE 0)
    /\ UNCHANGED <<call, answer, config, dbRows, pc, conn, pgOpened, ssh, io, local,
                   report_data, warnings, trace, log>>

\* cpu_ram.py lines 30-37, on a descriptor that has a host.
_is_localhost_connection(db) == db.host \in localhost_hosts

\* get_cpu_ram_usage line 12: the topology decision.  Reading the descriptor
\* is outside any handler, so a missing file or host ends the run.
IsLocalhost ==
    /\ pc = "_is_localhost_connection"
    /\ IF load_config_raises(config) \/ "host" \notin config.keys
       THEN Propagate("_is_localhost_connection")
       ELSE /\ pc' = IF _is_localhost_connection(config)
                     THEN "psutil" ELSE "_get_remote_system_metrics"
            /\ UNCHANGED <<local, report_data, warnings, trace>>
    /\ log' = Append(log, Read("_is_localhost_connection"))
    /\ UNCHANGED <<call, answer, config, dbRows, conn, pgOpen, pgOpened, ssh, io>>

\* get_cpu_ram_usage lines 14-20: the local strategy.
LocalMetrics ==
    /\ pc = "psutil"
    /\ \E sample \in LocalSamples :
        Return("psutil", sample)
    /\ trace' = trace \o <<Event("call", "psutil"), Event("return", "psutil")>>
    /\ UNCHANGED <<call, answer, config, dbRows, conn, pgOpen, pgOpened, ssh,
                   io, warnings, log>>

\* A variant of the handler that returns the zero record without printing.
RemoteExcept_silent(entered) ==
    /\ warnings' = warnings
    /\ trace' = trace \o entered \o <<Event("return", "_get_remote_system_metrics")>>
    /\ Return("_get_remote_system_metrics", ZeroMetrics)

\* The handler of _get_remote_system_metrics, lines 91-99: one warning, the
\* zero record.  It does not touch the SSH client.
RemoteExcept(entered) ==
    /\ warnings' = Append(warnings, "ssh")
    /\ trace' = trace \o entered \o <<Event("return", "_get_remote_system_metrics")>>
    /\ Return("_get_remote_system_metrics", ZeroMetrics)

\* _get_remote_system_metrics lines 43-61: read the descriptor, connect.
RemoteConnect ==
    /\ pc = "_get_remote_system_metrics"
    /\ io.connect = "none"
    /\ \E outcome \in {"ok", "unreachable", "auth"} :
        /\ io' = [io EXCEPT !.connect = outcome]
        /\ IF load_config_raises(config) \/ "host" \notin config.keys \/ outcome # "ok"
           THEN /\ RemoteExcept(<<Event("call", "_get_remote_system_metrics")>>)
                /\ UNCHANGED ssh
           ELSE /\ ssh' = "open"
                /\ trace' = Append(trace, Event("call", "_get_remote_system_metrics"))
                /\ UNCHANGED <<pc, local, report_data, warnings>>
    /\ log' = log \o <<Read("_get_remote_system_metrics")>>
               \o IF load_config_raises(config) \/ "host" \notin config.keys
                  THEN <<>>
                  ELSE <<LogEntry("ssh.connect", "_get_remote_system_metrics",
                                  config, connect_args(config))>>
    /\ UNCHANGED <<call, answer, config, dbRows, conn, pgOpen, pgOpened>>

\* _get_remote_system_metrics lines 63-89: the two commands, the parsing,
\* ssh.close() and the return; any exception goes to the handler.
RemoteCommands ==
    /\ pc = "_get_remote_system_metrics"
    /\ ssh = "open"
    /\ \E top \in TopOutputs, free \in FreeOutputs \cup {NotRun} :
        /\ (free = NotRun) <=> ~top.ok
        /\ io' = [io EXCEPT !.top = top, !.free = free]
        /\ IF ~top.ok \/ ~free.ok \/ mem_raises(free.lines)
           THEN /\ RemoteExcept(<<>>)
                /\ UNCHANGED ssh
           ELSE /\ ssh' = "closed"
                /\ trace' = Append(trace, Event("return", "_get_remote_system_metrics"))
                /\ \E ram \in ram_percent(free.lines) :
                      Return("_get_remote_system_metrics",
                             remote_metrics(top.line, free.lines, ram))
                /\ UNCHANGED warnings
    /\ UNCHANGED <<call, answer, config, dbRows, conn, pgOpen, pgOpened, log>>

\* pdf_generator.py lines 143-148: the header opens the file and looks up
\* dbname, host, port and user.
_create_header_raises(db) ==
    load_config_raises(db) \/ ~({"dbname", "host", "port", "user"} \subseteq db.keys)

\* main.py lines 20-21: the renderer receives report_data; its first step
\* is the header, which reads the descriptor again.
GeneratePdf ==
    /\ pc = "generate_pdf"
    /\ IF _create_header_raises(config)
       THEN Propagate("generate_pdf")
       ELSE /\ pc' = "done"
            /\ UNCHANGED <<local, report_data, warnings, trace>>
    /\ log' = Append(log, Read("_create_header"))
    /\ UNCHANGED <<call, answer, config, dbRows, conn, pgOpen, pgOpened, ssh, io>>

Next ==
    \/ \E fn \in DbProbes : Connect(fn)
    \/ \E fn \in DbProbes : Execute(fn)
    \/ Reclaim
    \/ IsLocalhost
    \/ LocalMetrics
    \/ RemoteConnect
    \/ RemoteCommands
    \/ GeneratePdf

Spec == Init /\ [][Next]_vars

----------------------------------------------------------------------------
(* Notions the properties share.                                           *)

SectionNames ==
    << "Long Queries", "Frequent Queries", "CPU/RAM Usage",
       "Cache Hit Ratio", "Storage Usage", "Replication Delay" >>

\* The descriptor is present and has every key get_connection needs.
ValidConfig ==
    /\ config.file
    /\ \A k \in {"host", "port", "user", "password", "dbname"} : k \in config.keys

IsPrefix(s, t) == Len(s) <= Len(t) /\ \A i \in DOMAIN s : s[i] = t[i]

Raised(fn) == \E i \in DOMAIN trace : trace[i] = Event("raise", fn)

Returned(fn) == \E i \in DOMAIN trace : trace[i] = Event("return", fn)

\* The empty container of a section's shape.
EmptySection(section) ==
    IF section = "Storage Usage"
    THEN << <<"databases", <<>>>>, <<"tables", <<>>>>,
            <<"indexes", <<>>>>, <<"index_usage", <<>>>> >>
    ELSE IF section = "Cache Hit Ratio"
    THEN << <<"total", <<>>>>, <<"per_table", <<>>>>, <<"index_heap_ratio", <<>>>> >>
    ELSE <<>>

----------------------------------------------------------------------------
\* C1: with a valid configuration no probe failure ends the run before
\* generate_pdf is invoked: the run never stops with an uncaught exception.
C1_ProbeFailureNeverEndsRun ==
    ValidConfig => pc # "crashed"

\* C2: with a valid configuration, a section whose probe failed holds the
\* empty container of its shape, and the sections main() assigned directly
\* hold what their probes returned.
C2_FailedSectionIsEmpty ==
    ValidConfig =>
        \A i \in DOMAIN main :
            /\ Raised(main[i].fn) =>
                   /\ HasKey(report_data, main[i].section)
                   /\ Get(report_data, main[i].section) = EmptySection(main[i].section)
            /\ (Returned(main[i].fn) /\ main[i].key = "") =>
                   /\ HasKey(report_data, main[i].section)
                   /\ Get(report_data, main[i].section) = Fetched(main[i].fn, dbRows)

C4_SessionClosedAtProbeExit ==
    pgOpen = (IF conn THEN 1 ELSE 0)

\* C5: once _get_remote_system_metrics has connected, the SSH session is
\* closed by the time it returns.
C5_SshClosedOnReturn ==
    ssh = "open" => pc = "_get_remote_system_metrics"

----------------------------------------------------------------------------
(* str.lower() on the characters host names are made of.                   *)

UpperLetters ==
    <<"A","B","C","D","E","F","G","H","I","J","K","L","M",
      "N","O","P","Q","R","S","T","U","V","W","X","Y","Z">>

LowerLetters ==
    <<"a","b","c","d","e","f","g","h","i","j","k","l","m",
      "n","o","p","q","r","s","t","u","v","w","x","y","z">>

LowerChar(c) ==
    IF \E i \in DOMAIN UpperLetters : UpperLetters[i] = c
    THEN LowerLetters[CHOOSE i \in DOMAIN UpperLetters : UpperLetters[i] = c]
    ELSE c

Lower(str) == [i \in DOMAIN str |-> LowerChar(str[i])]

\* C6: the local strategy is chosen exactly for the hosts whose lower-cased
\* form is one of localhost, 127.0.0.1, 0.0.0.1, ::1; every other host gets
\* the remote SSH strategy.
C6_CaseInsensitiveTopology ==
    pc \in {"psutil", "_get_remote_system_metrics"} =>
        (pc = "psutil" <=>
            Lower(config.host) \in
                { <<"l","o","c","a","l","h","o","s","t">>,
                  <<"1","2","7",".","0",".","0",".","1">>,
                  <<"0",".","0",".","0",".","1">>,
                  <<":",":","1">> })

----------------------------------------------------------------------------
(* The remote host probe seen from its caller.                             *)

\* The record _get_remote_system_metrics returned is in get_cpu_ram_usage's
\* system_metrics until get_postgres_server_metrics has returned.
RemoteReturned ==
    /\ Returned("_get_remote_system_metrics")
    /\ HasKey(local, "system_metrics")

system_metrics == Get(local, "system_metrics")

SshWarnings == Cardinality({i \in DOMAIN warnings : warnings[i] = "ssh"})

\* free -m gave no usable memory row: fewer than two lines, a second line
\* without three fields after its label, a field among them that is no
\* integer, or a total of 0.
FreeUnusable(lines) ==
    \/ Len(lines) < 2
    \/ Len(lines[2]) < 4
    \/ \E i \in 2..4 : ~lines[2][i].isInt
    \/ lines[2][2].n = 0

\* An exception was raised inside the try block of the remote probe.
RemoteRaised ==
    \/ io.connect # "ok"
    \/ ~io.top.ok
    \/ ~io.free.ok
    \/ FreeUnusable(io.free.lines)

\* The top line has no "<decimal> id" field.
NoIdleField ==
    \A i \in DOMAIN io.top.line :
        ~(io.top.line[i].label = "id" /\ io.top.line[i].sep = " ")

\* C7 as stated: after any failure of the remote probe, a top line without
\* an idle field included, the record is all zeros and one warning was printed.
C7_AnyFailureGivesZeroRecord ==
    (RemoteReturned /\ (RemoteRaised \/ NoIdleField)) =>
        /\ system_metrics = ZeroMetrics
        /\ SshWarnings = 1

\* C7 amended: a failure that raises inside the try block (connection,
\* authentication, a command that fails, an unusable free -m output) gives
\* the zero record and exactly one warning and the function returns; a top
\* line without an idle field alone only sets system_cpu_percent to 0.0: no
\* warning is printed and the RAM fields are those computed from free -m.
C7_RaisedFailureGivesZeroRecord ==
    RemoteReturned =>
        /\ RemoteRaised => (system_metrics = ZeroMetrics /\ SshWarnings = 1)
        /\ ~RemoteRaised =>
              /\ SshWarnings = 0
              /\ NoIdleField => system_metrics.system_cpu_percent = 0
              /\ LET total_mb == io.free.lines[2][2].n
                     gb == system_metrics.system_ram_total_gb
                 IN  /\ 2 * (gb * 1024 - total_mb * 100) <= 1024
                     /\ 2 * (total_mb * 100 - gb * 1024) <= 1024

\* C7 witness: connected, top parsed, free -m printed a single line; the
\* probe returned the zero record with one warning.
C7_Witness ==
    /\ RemoteReturned
    /\ io.connect = "ok" /\ io.top.ok /\ io.free.ok
    /\ Len(io.free.lines) = 1
    /\ system_metrics = ZeroMetrics
    /\ warnings = <<"ssh">>

----------------------------------------------------------------------------
(* The arithmetic of a remote probe whose two commands parsed.             *)

\* r (hundredths) is a hundredth nearest to num/den.
IsNearest(r, num, den) ==
    /\ 2 * (r * den - num * 100) <= den
    /\ 2 * (num * 100 - r * den) <= den

\* r is num/den rounded to two decimals, an exact tie going to the even
\* hundredth.
IsRounded(r, num, den) ==
    /\ IsNearest(r, num, den)
    /\ (2 * (r * den - num * 100) = den \/ 2 * (num * 100 - r * den) = den)
           => r % 2 = 0

\* The remote probe returned the record of lines 83-89 and its top line had
\* an idle field.
RemoteSucceeded == RemoteReturned /\ ~RemoteRaised /\ ~NoIdleField

IdleTenths ==
    LET line == io.top.line
    IN  line[CHOOSE i \in DOMAIN line :
                /\ line[i].label = "id" /\ line[i].sep = " "
                /\ \A j \in 1..(i - 1) : ~(line[j].label = "id" /\ line[j].sep = " ")].num

\* The scenario of the specification: "95.0 id" and "Mem: 16000 4000 12000".
Scenario950 ==
    /\ RemoteSucceeded
    /\ IdleTenths = 950
    /\ <<io.free.lines[2][2].n, io.free.lines[2][3].n, io.free.lines[2][4].n>>
           = <<16000, 4000, 12000>>

\* C8 as stated: the scenario yields cpu 5.0, ram 25.0, total 15.63 GB, used
\* 3.91 GB, available 11.72 GB.
C8_ScenarioGives1563 ==
    Scenario950 => system_metrics = HostMetrics(500, 2500, 1563, 391, 1172)

\* C8 amended: a successful remote probe returns cpu = 100 - I, ram_pct a
\* hundredth nearest to U/T*100, and the three GB figures rounded to two
\* decimals as Python's round does (nearest hundredth, an exact tie to the
\* even one); the scenario therefore yields total 15.62 GB (15.625 is a tie),
\* with cpu 5.0, ram 25.0, used 3.91 and available 11.72.
C8_RemoteArithmetic ==
    /\ RemoteSucceeded =>
          LET T == io.free.lines[2][2].n
              U == io.free.lines[2][3].n
              F == io.free.lines[2][4].n
          IN  /\ system_metrics.system_cpu_percent = 100 * 100 - IdleTenths * 10
              /\ IsNearest(system_metrics.system_ram_percent, U * 100, T)
              /\ IsRounded(system_metrics.system_ram_total_gb, T, 1024)
              /\ IsRounded(system_metrics.system_ram_used_gb, U, 1024)
              /\ IsRounded(system_metrics.system_ram_available_gb, F, 1024)
    /\ Scenario950 => system_metrics = HostMetrics(500, 2500, 1562, 391, 1172)

\* C8 witness: the scenario was run and its record returned.
C8_Witness ==
    /\ Scenario950
    /\ system_metrics.system_ram_total_gb = 1562
    /\ ssh = "closed"

----------------------------------------------------------------------------
\* The probes in the order the claim names them, the host probe being either
\* strategy.
ProbeOrder ==
    << "get_long_queries", "get_frequent_queries", "host probe",
       "get_postgres_server_metrics", "get_total_cache_hit_ratio",
       "get_per_table_cache_hit_ratio", "get_index_heap_ratio",
       "get_database_storage", "get_table_storage", "get_index_storage",
       "get_index_usage", "get_replication_delay" >>

ProbeName(fn) ==
    IF fn \in {"psutil", "_get_remote_system_metrics"} THEN "host probe" ELSE fn

\* C9: the k-th probe to start is the k-th of the fixed order, it starts only
\* after the one before it has returned, an exception is the last event of a
\* run, and the renderer is invoked only after all twelve probes returned and
\* all six sections were assigned.
C9_SequentialFixedOrder ==
    /\ Len(trace) <= 2 * Len(ProbeOrder)
    /\ \A i \in DOMAIN trace :
          IF i % 2 = 1
          THEN /\ trace[i].ev = "call"
               /\ ProbeName(trace[i].fn) = ProbeOrder[(i + 1) \div 2]
               /\ i > 1 => trace[i - 1].ev = "return"
          ELSE /\ trace[i].ev \in {"return", "raise"}
               /\ trace[i].fn = trace[i - 1].fn
               /\ trace[i].ev = "raise" => i = Len(trace)
    /\ pc \in {"generate_pdf", "done"} =>
          /\ Len(trace) = 2 * Len(ProbeOrder)
          /\ trace[Len(trace)].ev = "return"
          /\ Len(report_data) = Len(SectionNames)

\* C9 witness: the renderer is about to be invoked after a remote host probe.
C9_Witness ==
    /\ pc = "generate_pdf"
    /\ Len(trace) = 2 * Len(ProbeOrder)
    /\ trace[5].fn = "_get_remote_system_metrics"
    /\ trace[Len(trace)] = Event("return", "get_replication_delay")

----------------------------------------------------------------------------
\* The descriptor is missing or lacks a required key.
InvalidConfig ==
    \/ ~config.file
    \/ \E k \in {"host", "port", "user", "password", "dbname"} : k \notin config.keys

\* C10: with a missing or incomplete descriptor the run ends with an error in
\* its first probe: it is either still entering get_long_queries, whose
\* get_connection can be taken, or has ended with the exception,
\* and no PostgreSQL session, no SSH session and no section exists.
C10_InvalidConfigIsFatalFirst ==
    InvalidConfig =>
        /\ pc \in {"get_long_queries", "crashed"}
        /\ pc = "crashed" => trace[Len(trace)] = Event("raise", "get_long_queries")
        /\ pc = "get_long_queries" => ENABLED Connect("get_long_queries")
        /\ pgOpened = 0 /\ pgOpen = 0 /\ ~conn
        /\ ssh = "none" /\ io.connect = "none"
        /\ report_data = <<>> /\ local = <<>>

\* C10 witness: a descriptor without a password; the run has ended.
C10_Witness ==
    /\ config.file
    /\ config.keys = {"host", "port", "user", "dbname"}
    /\ pc = "crashed"
    /\ pgOpened = 0


----------------------------------------------------------------------------
(* The report's classifiers (utils/pdf_generator.py).                      *)
(*                                                                         *)
(* A Python value is a record [kind, n].  kind is "none" (None), "nan",    *)
(* "inf", "ninf" (floats), "str" (a string that is no number, "abc"),      *)
(* "floatstr" (a string such as "12.5": float() reads it, int() does       *)
(* not), "intstr" (a string such as "7"), "int", "float", and "big" (an    *)
(* int beyond the range of a double, 10**400).  n is the value in          *)
(* hundredths for the numeric kinds and 0 for the others.                  *)

\* The largest counter of an index drawn for _get_index_status.
MaxCount == 12

\* The largest number of rows of the 'Long Queries' section drawn.
MaxLong == 11

PyValue(kind, n) == [kind |-> kind, n |-> n]

None == PyValue("none", 0)

\* Percentages, connection counts and row counts around the thresholds
\* 5, 10, 50, 80, 90 and 100, in hundredths.
Hundredths ==
    {-500, 0, 400, 499, 500, 700, 900, 999, 1000, 1250, 4900, 4999, 5000,
     7990, 8000, 8001, 8730, 8999, 9000, 9001, 9500, 9900, 9999, 10000, 12000}

PyInts == {PyValue("int", n) : n \in {h \in Hundredths : h % 100 = 0}}

PyFloats == {PyValue("float", n) : n \in Hundredths}

PyOthers ==
    {PyValue(k, 0) : k \in {"none", "nan", "inf", "ninf", "str", "big"}}
        \cup {PyValue("floatstr", 1250), PyValue("intstr", 700)}

PyValues == PyInts \cup PyFloats \cup PyOthers

\* float(value) raises: TypeError for None, ValueError for a string that
\* is no number, OverflowError for an int beyond the range of a double.
float_raises(value) == value.kind \in {"none", "str", "big"}

\* float(value) where it does not raise: a finite number of hundredths,
\* or nan, inf, -inf.
float(value) ==
    IF value.kind \in {"nan", "inf", "ninf"} THEN value
    ELSE PyValue("num", value.n)

\* v >= t and v <= t on floats, t a whole number: every comparison with nan
\* is False.
Ge(v, t) == v.kind = "inf" \/ (v.kind = "num" /\ v.n >= 100 * t)

Le(v, t) == v.kind = "ninf" \/ (v.kind = "num" /\ v.n <= 100 * t)

\* try: v = float(value) / except Exception: v = 0.0
float_or_zero(value) ==
    IF float_raises(value) THEN PyValue("num", 0) ELSE float(value)

\* A variant whose comparisons are strict.
_get_status_indicator_strict(value, warning_threshold, critical_threshold) ==
    LET v == float_or_zero(value)
    IN  IF ~Le(v, critical_threshold) /\ v.kind # "nan" THEN "CRITICAL"
        ELSE IF ~Le(v, warning_threshold) /\ v.kind # "nan" THEN "WARNING"
        ELSE "GOOD"

\* pdf_generator.py lines 212-223.
_get_status_indicator(value, warning_threshold, critical_threshold) ==
    LET v == float_or_zero(value)
    IN  IF Ge(v, critical_threshold) THEN "CRITICAL"
        ELSE IF Ge(v, warning_threshold) THEN "WARNING"
        ELSE "GOOD"

\* A variant that tests the warning threshold first.
_status_higher_is_better_warn_first(value, warn, crit) ==
    LET v == float_or_zero(value)
    IN  IF Le(v, warn) THEN "WARNING"
        ELSE IF Le(v, crit) THEN "CRITICAL"
        ELSE "EXCELLENT"

\* pdf_generator.py lines 225-236.
_status_higher_is_better(value, warn, crit) ==
    LET v == float_or_zero(value)
    IN  IF Le(v, crit) THEN "CRITICAL"
        ELSE IF Le(v, warn) THEN "WARNING"
        ELSE "EXCELLENT"

\* A variant that is CRITICAL only above the critical threshold.
_status_count_above(value, warn, crit) ==
    LET v == float_or_zero(value)
    IN  IF Ge(v, crit) /\ ~Le(v, crit) THEN "CRITICAL"
        ELSE IF Ge(v, warn) THEN "WARNING"
        ELSE "GOOD"

\* pdf_generator.py lines 238-249.
_status_count(value, warn, crit) ==
    LET v == float_or_zero(value)
    IN  IF Ge(v, crit) THEN "CRITICAL"
        ELSE IF Ge(v, warn) THEN "WARNING"
        ELSE "GOOD"

\* `value or 0`: None and the zeros are falsy; nan is not.
or_zero(value) ==
    IF value.kind = "none" \/ (value.kind \in {"int", "float"} /\ value.n = 0)
    THEN PyValue("int", 0)
    ELSE value

\* int(value) raises: ValueError for nan and for a string that is no whole
\* number, OverflowError for an infinity.
int_raises(value) ==
    value.kind \in {"nan", "inf", "ninf", "str", "floatstr", "none"}

\* Truncation toward zero of n hundredths.
Trunc(n) == IF n >= 0 THEN n \div 100 ELSE -((-n) \div 100)

\* int(value) where it does not raise: a whole number ("num") or an int
\* beyond the range of a double ("big").
int(value) ==
    IF value.kind = "big" THEN PyValue("big", 0)
    ELSE PyValue("num", Trunc(value.n))

\* try: x_val = int(x or 0) / except Exception: x_val = 0
int_or_zero(value) ==
    IF int_raises(or_zero(value)) THEN PyValue("num", 0)
    ELSE int(or_zero(value))

\* max(read_val, 1)
max_1(read_val) ==
    IF read_val.kind = "big" THEN read_val
    ELSE PyValue("num", IF read_val.n > 1 THEN read_val.n ELSE 1)

\* The outcome of  (fetched_val / max(read_val, 1)) < 0.1 : "True", "False"
\* or the exception the division raises.  True division of ints rounds the
\* exact quotient: an int beyond the range of a double over a small one
\* raises OverflowError, over itself it is 1.0, and under it 0.0.
quotient_below_tenth(fetched_val, divisor) ==
    IF fetched_val.kind = "big"
    THEN IF divisor.kind = "big" THEN "False" ELSE "OverflowError"
    ELSE IF divisor.kind = "big" THEN "True"
    ELSE IF 10 * fetched_val.n < divisor.n THEN "True" ELSE "False"

\* A variant that divides by read_val itself: ZeroDivisionError at 0.
_get_index_status_no_max(scans, tuples_read, tuples_fetched, size_bytes) ==
    LET scans_val   == int_or_zero(scans)
        read_val    == int_or_zero(tuples_read)
        fetched_val == int_or_zero(tuples_fetched)
        below       == quotient_below_tenth(fetched_val, read_val)
    IN  IF scans_val.kind = "num" /\ scans_val.n = 0 THEN "UNUSED"
        ELSE IF scans_val.kind = "num" /\ scans_val.n < 10 THEN "LOW USE"
        ELSE IF read_val.kind = "num" /\ read_val.n = 0
             THEN "ZeroDivisionError"
        ELSE IF below = "True" THEN "INEFFICIENT"
        ELSE IF below = "False" THEN "ACTIVE"
        ELSE below

\* A variant whose LOW USE band includes 10 scans.
_get_index_status_le_10(scans, tuples_read, tuples_fetched, size_bytes) ==
    LET scans_val   == int_or_zero(scans)
        read_val    == int_or_zero(tuples_read)
        fetched_val == int_or_zero(tuples_fetched)
        below       == quotient_below_tenth(fetched_val, max_1(read_val))
    IN  IF scans_val.kind = "num" /\ scans_val.n = 0 THEN "UNUSED"
        ELSE IF scans_val.kind = "num" /\ scans_val.n <= 10 THEN "LOW USE"
        ELSE IF below = "True" THEN "INEFFICIENT"
        ELSE IF below = "False" THEN "ACTIVE"
        ELSE below

\* pdf_generator.py lines 95-117.  The result is the label, or the name of
\* the exception that leaves the function.
_get_index_status(scans, tuples_read, tuples_fetched, size_bytes) ==
    LET scans_val   == int_or_zero(scans)
        read_val    == int_or_zero(tuples_read)
        fetched_val == int_or_zero(tuples_fetched)
        below       == quotient_below_tenth(fetched_val, max_1(read_val))
    IN  IF scans_val.kind = "num" /\ scans_val.n = 0 THEN "UNUSED"
        ELSE IF scans_val.kind = "num" /\ scans_val.n < 10 THEN "LOW USE"
        ELSE IF below = "True" THEN "INEFFICIENT"
        ELSE IF below = "False" THEN "ACTIVE"
        ELSE below

\* dict.get(key, 0) on a dict modelled as a function.
get_0(d, key) == IF key \in DOMAIN d THEN d[key] ELSE PyValue("int", 0)

\* pdf_generator.py line 164.  total_cache is () or the row (hits, reads,
\* ratio); a ratio is None or a number of ten-thousandths, so that
\* float(ratio) * 100 is the same number of hundredths.  float(None)
\* raises TypeError.
cache_ratio_raises(total_cache) ==
    Len(total_cache) > 2 /\ total_cache[3].kind = "none"

cache_ratio(total_cache) ==
    IF Len(total_cache) > 2
    THEN PyValue("float", total_cache[3].n)
    ELSE PyValue("int", 0)

\* pdf_generator.py lines 153-210: the Status column of the summary table,
\* top to bottom, and the exception that leaves the method, if any.
_create_executive_summary(data) ==
    LET cpu_ram            == data.cpu_ram
        long_queries       == data.long_queries
        ratio              == cache_ratio(data.total_cache)
        slow_queries_count == PyValue("int", 100 * Len(long_queries))
    IN  IF cache_ratio_raises(data.total_cache)
        THEN [exception |-> "TypeError", status |-> <<>>]
        ELSE [exception |-> "none", status |->
              << _get_status_indicator(
                    get_0(cpu_ram, "system_cpu_percent"), 80, 90),
                _get_status_indicator(
                    get_0(cpu_ram, "system_ram_percent"), 80, 90),
                _get_status_indicator(
                    get_0(cpu_ram, "postgres_active_connections"), 50, 100),
                _status_higher_is_better(ratio, 90, 80),
                _status_count(slow_queries_count, 5, 10) >>]

\* The (warning, critical) pairs the report passes to _get_status_indicator
\* and _status_count, and the (warn, crit) pair of _status_higher_is_better.
WorseThresholds == {<<80, 90>>, <<50, 100>>, <<5, 10>>}

BetterThresholds == {<<90, 80>>}

\* Index counters: the whole numbers up to MaxCount, the figures of larger
\* indexes, and values that are no counters.
Counters ==
    {PyValue("int", 100 * k) : k \in 0..MaxCount}
        \cup {PyValue("int", 100 * k) : k \in {50, 100, 500, 1000}}

IndexArgs ==
    Counters \cup PyOthers \cup {PyValue("int", -500), PyValue("float", 1250)}

IndexSizes == {None, PyValue("int", 0), PyValue("int", 819200)}

\* The sections the summary reads.
SummaryPercents ==
    {PyValue("float", n) : n \in {0, 7990, 8000, 8999, 9000, 9500}}

SummaryConnections ==
    {PyValue("int", 100 * k) : k \in {0, 49, 50, 99, 100}}

CpuRamSections ==
    {<<>>} \cup
    {[k \in {"system_cpu_percent", "system_ram_percent",
             "postgres_active_connections"} |->
        IF k = "system_cpu_percent" THEN c
        ELSE IF k = "system_ram_percent" THEN r ELSE n] :
     c \in SummaryPercents, r \in SummaryPercents, n \in SummaryConnections}

TotalCacheRows ==
    {<<>>} \cup
    {<<0, 0, None>>} \cup
    {<<r, 10000 - r, PyValue("ratio", r)>> :
        r \in {0, 7990, 8000, 8730, 9000, 9001, 9500, 10000}}

SummaryData ==
    [cpu_ram : CpuRamSections, total_cache : TotalCacheRows,
     long_queries : {[i \in 1..n |-> i] : n \in 0..MaxLong}]

\* One application of a classifier to arguments of any kind, where none
\* has been applied yet.
StatusIndicator ==
    /\ call = NoCall
    /\ \E value \in PyValues, th \in WorseThresholds :
        /\ call' = [fn |-> "_get_status_indicator",
                    args |-> <<value, th[1], th[2]>>]
        /\ answer' = _get_status_indicator(value, th[1], th[2])
    /\ UNCHANGED run

StatusHigherIsBetter ==
    /\ call = NoCall
    /\ \E value \in PyValues, th \in BetterThresholds :
        /\ call' = [fn |-> "_status_higher_is_better",
                    args |-> <<value, th[1], th[2]>>]
        /\ answer' = _status_higher_is_better(value, th[1], th[2])
    /\ UNCHANGED run

StatusCount ==
    /\ call = NoCall
    /\ \E value \in PyValues, th \in WorseThresholds :
        /\ call' = [fn |-> "_status_count", args |-> <<value, th[1], th[2]>>]
        /\ answer' = _status_count(value, th[1], th[2])
    /\ UNCHANGED run

IndexStatus ==
    /\ call = NoCall
    /\ \E scans \in IndexArgs, tuples_read \in IndexArgs,
          tuples_fetched \in IndexArgs, size_bytes \in IndexSizes :
        /\ call' = [fn |-> "_get_index_status",
                    args |-> <<scans, tuples_read, tuples_fetched,
                               size_bytes>>]
        /\ answer' = _get_index_status(scans, tuples_read, tuples_fetched,
                                       size_bytes)
    /\ UNCHANGED run

ExecutiveSummary ==
    /\ call = NoCall
    /\ \E data \in SummaryData :
        /\ call' = [fn |-> "_create_executive_summary", args |-> <<data>>]
        /\ answer' = _create_executive_summary(data)
    /\ UNCHANGED run

\* The renderer's classifiers, applied to any arguments, before a run.
ClassifierNext ==
    \/ StatusIndicator
    \/ StatusHigherIsBetter
    \/ StatusCount
    \/ IndexStatus
    \/ ExecutiveSummary

ClassifierInit ==
    /\ Init
    /\ config = Descriptor(h_localhost, NoSsh)
    /\ dbRows = 0

ClassifierSpec == ClassifierInit /\ [][ClassifierNext]_vars

----------------------------------------------------------------------------
(* Properties of the classifiers.                                          *)

Classifiers ==
    {"_get_status_indicator", "_status_higher_is_better", "_status_count",
     "_get_index_status"}

Called(fn) == call.fn = fn

\* The labels a classifier is defined to return.
Labels(fn) ==
    IF fn = "_get_index_status"
    THEN {"UNUSED", "LOW USE", "INEFFICIENT", "ACTIVE"}
    ELSE IF fn = "_status_higher_is_better"
    THEN {"CRITICAL", "WARNING", "EXCELLENT"}
    ELSE {"CRITICAL", "WARNING", "GOOD"}

\* The arguments of the call that a classifier coerces.
Coerced ==
    IF Called("_get_index_status")
    THEN {call.args[1], call.args[2], call.args[3]}
    ELSE {call.args[1]}

\* An argument whose coercion raises, replaced by 0: float() for the three
\* status classifiers, int() for the index classifier.
FloatAsZero(v) ==
    IF v.kind \in {"none", "str", "big"} THEN PyValue("int", 0) ELSE v

IntAsZero(v) ==
    IF v.kind \in {"none", "nan", "inf", "ninf", "str", "floatstr"}
    THEN PyValue("int", 0)
    ELSE v

\* The label of the call with every such argument replaced by 0.
LabelWithZeros ==
    LET a == call.args
    IN  IF Called("_get_index_status")
        THEN _get_index_status(IntAsZero(a[1]), IntAsZero(a[2]),
                               IntAsZero(a[3]), a[4])
        ELSE IF Called("_status_higher_is_better")
        THEN _status_higher_is_better(FloatAsZero(a[1]), a[2], a[3])
        ELSE IF Called("_status_count")
        THEN _status_count(FloatAsZero(a[1]), a[2], a[3])
        ELSE _get_status_indicator(FloatAsZero(a[1]), a[2], a[3])

Finite(v) == v.kind \in {"int", "float"}

\* The summary table was built.
SummaryBuilt ==
    Called("_create_executive_summary") /\ answer.exception = "none"

\* The figure the summary reads under a key of the CPU/RAM section, in
\* hundredths: 0 when the key is missing.
SummaryFigure(key) ==
    LET cpu_ram == call.args[1].cpu_ram
    IN  IF key \in DOMAIN cpu_ram THEN cpu_ram[key].n ELSE 0

\* label is the higher-is-worse status of n hundredths against the
\* thresholds warning <= critical.
IsWorseStatus(label, n, warning, critical) ==
    /\ label = "CRITICAL" <=> n >= 100 * critical
    /\ label = "WARNING" <=> (100 * warning <= n /\ n < 100 * critical)
    /\ label = "GOOD" <=> n < 100 * warning

\* C12: the higher-is-worse classifier is CRITICAL iff v >= critical,
\* WARNING iff warning <= v < critical and GOOD otherwise, and the summary
\* applies it to CPU% and RAM% with 80/90 and to the connections with
\* 50/100.
C12_HigherIsWorse ==
    /\ (Called("_get_status_indicator") /\ Finite(call.args[1]))
          => IsWorseStatus(answer, call.args[1].n, call.args[2],
                           call.args[3])
    /\ SummaryBuilt
          => /\ IsWorseStatus(answer.status[1],
                              SummaryFigure("system_cpu_percent"), 80, 90)
             /\ IsWorseStatus(answer.status[2],
                              SummaryFigure("system_ram_percent"), 80, 90)
             /\ IsWorseStatus(answer.status[3],
                              SummaryFigure("postgres_active_connections"),
                              50, 100)

\* A summary of 90% CPU, 89.99% RAM and 50 connections was built.
C12_Witness ==
    /\ SummaryBuilt
    /\ SummaryFigure("system_cpu_percent") = 9000
    /\ SummaryFigure("system_ram_percent") = 8999
    /\ SummaryFigure("postgres_active_connections") = 5000
    /\ answer.status[1] = "CRITICAL"
    /\ answer.status[2] = "WARNING"
    /\ answer.status[3] = "WARNING"

\* label is the higher-is-better status of n hundredths against warn = 90
\* and crit = 80.
IsCacheStatus(label, n) ==
    /\ label = "CRITICAL" <=> n <= 8000
    /\ label = "WARNING" <=> (8000 < n /\ n <= 9000)
    /\ label = "EXCELLENT" <=> n > 9000

\* The cache percentage the summary classifies, in hundredths: 100 times
\* the ratio of the total row, 0 without a row.
SummaryCachePercent ==
    LET total_cache == call.args[1].total_cache
    IN  IF total_cache = <<>> THEN 0 ELSE total_cache[3].n

\* C13: with warn = 90 and crit = 80 the higher-is-better classifier is
\* CRITICAL iff v <= 80, WARNING iff 80 < v <= 90 and EXCELLENT iff v > 90,
\* as a function and as the summary applies it to the cache percentage.
C13_HigherIsBetter ==
    /\ (/\ Called("_status_higher_is_better")
        /\ Finite(call.args[1])
        /\ call.args[2] = 90
        /\ call.args[3] = 80)
          => IsCacheStatus(answer, call.args[1].n)
    /\ SummaryBuilt => IsCacheStatus(answer.status[4], SummaryCachePercent)

\* A cache percentage of 87.3 was classified WARNING by the summary.
C13_Witness ==
    /\ SummaryBuilt
    /\ SummaryCachePercent = 8730
    /\ answer.status[4] = "WARNING"

\* C14: the slow-query status is CRITICAL iff the 'Long Queries' section
\* has 10 rows or more, WARNING iff it has 5 to 9, GOOD iff it has fewer.
C14_SlowQueryCount ==
    /\ (/\ Called("_status_count")
        /\ call.args[1].kind = "int"
        /\ call.args[2] = 5
        /\ call.args[3] = 10)
          => IsWorseStatus(answer, call.args[1].n, 5, 10)
    /\ SummaryBuilt
          => LET count == Len(call.args[1].long_queries)
             IN  /\ answer.status[5] = "CRITICAL" <=> count >= 10
                 /\ answer.status[5] = "WARNING" <=> (5 <= count /\ count < 10)
                 /\ answer.status[5] = "GOOD" <=> count < 5

\* A summary over exactly 10 long queries was built.
C14_Witness ==
    /\ SummaryBuilt
    /\ Len(call.args[1].long_queries) = 10
    /\ answer.status[5] = "CRITICAL"

\* The argument is a non-negative int.
IsCounter(v) == v.kind = "int" /\ v.n >= 0

----------------------------------------------------------------------------
(* The SQL probes (queries/*.py, reports/cache_hit.py,                     *)
(* reports/storage_usage.py), each over a snapshot of the catalog or       *)
(* statistics view it reads.  A nullable column is <<>> (NULL) or <<n>>.   *)
(* Times are in ten-thousandths of a millisecond.                          *)

\* The largest number of rows of a view in a snapshot.
MaxSnapshot == 3

\* The snapshots of a view: the sets of at most MaxSnapshot of its rows.
Snapshots(view) == {S \in SUBSET view : Cardinality(S) <= MaxSnapshot}

\* The largest number of rows by which a view exceeds a probe's LIMIT.
MaxBeyond == 2

\* A view of more rows than a LIMIT n has n + 1 to n + MaxBeyond rows,
\* numbered from 1.  Their sort keys are all different (tie = 0), or rows
\* tie and tie + 1 have the same key, the pair lying at or next to the
\* place where the LIMIT cuts an ascending or a descending order.
LargeSizes(n) == (n + 1)..(n + MaxBeyond)

TiePositions(size, n) ==
    {0} \cup ({n - 1, n, n + 1, size - n - 1, size - n, size - n + 1}
                  \cap 1..(size - 1))

KeyOf(i, tie) == IF tie # 0 /\ i > tie THEN i - 1 ELSE i

\* The pairs <<size, tie>> of the views larger than a LIMIT n.
LargeShapes(n) ==
    UNION {{<<size, tie>> : tie \in TiePositions(size, n)} :
           size \in LargeSizes(n)}

\* Row a sorts strictly before row b under the sort keys, a sequence of
\* <<column, "ASC" or "DESC">>: they differ at a key, agree on the keys
\* before it, and a has the smaller (ASC) or larger (DESC) value there.
Before(a, b, keys) ==
    \E k \in DOMAIN keys :
        /\ \A m \in 1..(k - 1) : a[keys[m][1]] = b[keys[m][1]]
        /\ IF keys[k][2] = "ASC"
           THEN a[keys[k][1]] < b[keys[k][1]]
           ELSE a[keys[k][1]] > b[keys[k][1]]

\* ORDER BY: any order of the rows in which no row comes after a row it
\* sorts strictly before; rows with equal keys come in any order.  The
\* first row is any row that no other row sorts before, and the rest is
\* an order of the other rows.
RECURSIVE OrderBy(_, _)
OrderBy(S, keys) ==
    IF S = {} THEN {<<>>}
    ELSE UNION {{<<x>> \o rest : rest \in OrderBy(S \ {x}, keys)} :
                x \in {y \in S : \A z \in S : ~Before(z, y, keys)}}

\* A variant that keeps the last n rows.
Limit_last(rows, n) ==
    SubSeq(rows, IF Len(rows) < n THEN 1 ELSE Len(rows) - n + 1, Len(rows))

\* LIMIT n
Limit(rows, n) == SubSeq(rows, 1, IF Len(rows) < n THEN Len(rows) ELSE n)

\* SQL NULL
Null == <<>>

IsNull(x) == x = Null

\* a + b on nullable integers
Plus(a, b) == IF IsNull(a) \/ IsNull(b) THEN Null ELSE <<a[1] + b[1]>>

\* a > 0 is true (not false, not NULL)
IsPositive(a) == ~IsNull(a) /\ a[1] > 0

\* ROUND(x, 2) || suffix, x = num / den >= 0: the hundredths, half away
\* from zero, and the suffix.
Formatted(num, den, suffix) ==
    [hundredths |-> RoundHalfUp(num, den), suffix |-> suffix]

\* A variant whose units change only above 1000 ms and above 60000 ms.
time_formatted_above(t) ==
    IF t > 600000000 THEN Formatted(t, 6000000, "m")
    ELSE IF t > 10000000 THEN Formatted(t, 100000, "s")
    ELSE Formatted(t, 100, "ms")

\* long_queries.py lines 13-17: the CASE that formats a time t.
time_formatted(t) ==
    IF t >= 600000000 THEN Formatted(t, 6000000, "m")
    ELSE IF t >= 10000000 THEN Formatted(t, 100000, "s")
    ELSE Formatted(t, 100, "ms")

\* frequent_queries.py lines 17-22: the CASE that formats total / calls.
avg_time_per_call(total_exec_time, calls) ==
    IF calls > 0 /\ total_exec_time \div calls >= 600000000
    THEN Formatted(total_exec_time, calls * 6000000, "m")
    ELSE IF calls > 0 /\ total_exec_time \div calls >= 10000000
    THEN Formatted(total_exec_time, calls * 100000, "s")
    ELSE IF calls > 0 THEN Formatted(total_exec_time, calls * 100, "ms")
    ELSE [hundredths |-> 0, suffix |-> "0ms"]

\* pg_stat_statements: a statement (query stands for its text), its mean
\* and total execution time and its number of calls.
Statement(query, mean_ms, calls) ==
    [query |-> query, mean_exec_time |-> mean_ms, calls |-> calls,
     total_exec_time |-> mean_ms * calls]

\* Statements at 599 ms, 600 ms and 600.0001 ms, two of 1250 ms with the
\* same number of calls, one planned and never executed, one of 90 s, and
\* single calls of 999 ms, 1000 ms, 59999.999 ms and 60000 ms.
pg_stat_statements ==
    {Statement(1, 5990000, 100), Statement(2, 6000000, 3),
     Statement(3, 6000001, 1), Statement(4, 12500000, 3),
     Statement(5, 12500000, 3), Statement(6, 0, 0),
     Statement(7, 900000000, 2), Statement(8, 9990000, 1),
     Statement(9, 10000000, 1), Statement(10, 599999990, 1),
     Statement(11, 600000000, 1)}

\* More statements than a LIMIT n, all above 700 ms.
large_pg_stat_statements(n) ==
    {{Statement(100 + i, 7000000 + 10000 * KeyOf(i, sh[2]),
                KeyOf(i, sh[2])) : i \in 1..sh[1]} :
     sh \in LargeShapes(n)}

\* A variant whose WHERE clause is  mean_exec_time >= threshold_ms.
get_long_queries_at_least(statements, threshold_ms, limit) ==
    LET selected ==
            {[query |-> r.query,
              total_exec_time |-> r.total_exec_time,
              mean_exec_time |-> r.mean_exec_time,
              calls |-> r.calls,
              total_time_formatted |-> time_formatted(r.total_exec_time),
              mean_time_formatted |-> time_formatted(r.mean_exec_time)] :
             r \in {x \in statements :
                        x.mean_exec_time >= threshold_ms * 10000}}
        keys == << <<"mean_exec_time", "DESC">> >>
    IN  {Limit(rows, limit) : rows \in OrderBy(selected, keys)}

\* long_queries.py lines 3-30: the results the query can give (one for
\* each order of the rows with equal mean_exec_time).
get_long_queries(statements, threshold_ms, limit) ==
    LET selected ==
            {[query |-> r.query,
              total_exec_time |-> r.total_exec_time,
              mean_exec_time |-> r.mean_exec_time,
              calls |-> r.calls,
              total_time_formatted |-> time_formatted(r.total_exec_time),
              mean_time_formatted |-> time_formatted(r.mean_exec_time)] :
             r \in {x \in statements :
                        x.mean_exec_time > threshold_ms * 10000}}
        keys == << <<"mean_exec_time", "DESC">> >>
    IN  {Limit(rows, limit) : rows \in OrderBy(selected, keys)}

\* frequent_queries.py lines 3-29.
get_frequent_queries(statements, limit) ==
    LET selected ==
            {[query |-> r.query,
              calls |-> r.calls,
              total_exec_time |-> r.total_exec_time,
              total_time_formatted |-> time_formatted(r.total_exec_time),
              avg_time_per_call |->
                  avg_time_per_call(r.total_exec_time, r.calls)] :
             r \in statements}
        keys == << <<"calls", "DESC">> >>
    IN  {Limit(rows, limit) : rows \in OrderBy(selected, keys)}

\* The defaults of get_long_queries(threshold_ms=600, limit=10) and of
\* get_frequent_queries(limit=10), with which main() calls them.
default_threshold_ms == 600

default_limit == 10

\* One execution of a probe's query over a snapshot, where none has been
\* executed yet.
LongQueries ==
    /\ call = NoCall
    /\ \E snapshot \in Snapshots(pg_stat_statements)
                          \cup large_pg_stat_statements(default_limit) :
        /\ call' = [fn |-> "get_long_queries", snapshot |-> snapshot]
        /\ answer' \in get_long_queries(snapshot, default_threshold_ms,
                                       default_limit)
    /\ UNCHANGED run

FrequentQueries ==
    /\ call = NoCall
    /\ \E snapshot \in Snapshots(pg_stat_statements)
                          \cup large_pg_stat_statements(default_limit) :
        /\ call' = [fn |-> "get_frequent_queries", snapshot |-> snapshot]
        /\ answer' \in get_frequent_queries(snapshot, default_limit)
    /\ UNCHANGED run

\* pg_stat_database: the block counters of a database.
pg_stat_database ==
    {[datid |-> 1, blks_hit |-> 0, blks_read |-> 0],
     [datid |-> 2, blks_hit |-> 9, blks_read |-> 1],
     [datid |-> 3, blks_hit |-> 1, blks_read |-> 2],
     [datid |-> 4, blks_hit |-> 0, blks_read |-> 5],
     [datid |-> 5, blks_hit |-> 7, blks_read |-> 0]}

\* sum(column) over rows: NULL over no row.
RECURSIVE SumOver(_, _)
SumOver(rows, column) ==
    IF rows = {} THEN 0
    ELSE LET r == CHOOSE x \in rows : TRUE
         IN  r[column] + SumOver(rows \ {r}, column)

sum(rows, column) == IF rows = {} THEN Null ELSE <<SumOver(rows, column)>>

\* nullif(a, 0)
nullif_0(a) == IF ~IsNull(a) /\ a[1] = 0 THEN Null ELSE a

\* a / b on nullable numerics: the quotient as the fraction num / den
\* (sum(bigint) is numeric, so the division keeps the fractional part),
\* NULL when an operand is NULL, and "division by zero" where b is 0.
Quotient(a, b) ==
    IF IsNull(a) \/ IsNull(b) THEN Null
    ELSE IF b[1] = 0 THEN <<"division by zero">>
    ELSE <<[num |-> a[1], den |-> b[1]]>>

\* A variant that divides by the sum itself, without nullif.
get_total_cache_hit_ratio_no_nullif(databases) ==
    LET hits  == sum(databases, "blks_hit")
        reads == sum(databases, "blks_read")
    IN  <<hits, reads, Quotient(hits, Plus(hits, reads))>>

\* A variant whose quotient is the integer quotient of bigints.
get_total_cache_hit_ratio_bigint(databases) ==
    LET hits  == sum(databases, "blks_hit")
        reads == sum(databases, "blks_read")
        total == nullif_0(Plus(hits, reads))
    IN  <<hits, reads,
          IF IsNull(total) THEN Null
          ELSE <<[num |-> hits[1] \div total[1], den |-> 1]>> >>

\* cache_hit.py lines 18-29: the row (hits, reads, ratio).
get_total_cache_hit_ratio(databases) ==
    LET hits  == sum(databases, "blks_hit")
        reads == sum(databases, "blks_read")
    IN  <<hits, reads, Quotient(hits, nullif_0(Plus(hits, reads)))>>

\* pg_statio_user_tables: the block counters of a table.  The index
\* counters of a table without index are NULL.
Table(relname, heap_hit, heap_read, idx_hit, idx_read) ==
    [schemaname |-> "public", relname |-> relname,
     heap_blks_hit |-> heap_hit, heap_blks_read |-> heap_read,
     idx_blks_hit |-> idx_hit, idx_blks_read |-> idx_read]

\* A table never read, tables with and without index, one whose ratio
\* ends in a half hundredth (1 / 800 = 0.125 %), two of equal ratios.
pg_statio_user_tables ==
    {Table(1, 0, 0, <<0>>, <<0>>), Table(2, 9, 1, Null, Null),
     Table(3, 1, 2, <<5>>, <<1>>), Table(4, 2, 1, <<0>>, <<0>>),
     Table(5, 0, 8, <<3>>, <<5>>), Table(6, 1, 799, <<1>>, <<0>>),
     Table(7, 4, 2, Null, Null), Table(8, 0, 0, <<2>>, <<2>>)}

\* A variant that drops the digits after the second decimal.
round_percent_floor(part, whole) == (part * 10000) \div whole

\* More tables than LIMIT 20: table i (of key k) has k hits in 100 heap
\* blocks and k index blocks.
large_pg_statio_user_tables ==
    {{Table(100 + i, KeyOf(i, sh[2]), 100 - KeyOf(i, sh[2]),
            <<KeyOf(i, sh[2])>>, <<0>>) : i \in 1..sh[1]} :
     sh \in LargeShapes(20)}

\* ROUND((part::numeric / whole) * 100, 2) in hundredths, whole > 0.
round_percent(part, whole) == RoundHalfUp(part * 10000, whole)

\* A variant without the WHERE clause.
get_per_table_cache_hit_ratio_all(tables) ==
    LET selected ==
            {[schemaname |-> r.schemaname,
              tablename |-> r.relname,
              heap_blks_hit |-> r.heap_blks_hit,
              heap_blks_read |-> r.heap_blks_read,
              hit_ratio_percent |->
                  IF r.heap_blks_hit + r.heap_blks_read > 0
                  THEN round_percent(r.heap_blks_hit,
                                     r.heap_blks_hit + r.heap_blks_read)
                  ELSE 0] :
             r \in tables}
        keys == << <<"hit_ratio_percent", "ASC">> >>
    IN  {Limit(rows, 20) : rows \in OrderBy(selected, keys)}

\* cache_hit.py lines 31-51.
get_per_table_cache_hit_ratio(tables) ==
    LET selected ==
            {[schemaname |-> r.schemaname,
              tablename |-> r.relname,
              heap_blks_hit |-> r.heap_blks_hit,
              heap_blks_read |-> r.heap_blks_read,
              hit_ratio_percent |->
                  IF r.heap_blks_hit + r.heap_blks_read > 0
                  THEN round_percent(r.heap_blks_hit,
                                     r.heap_blks_hit + r.heap_blks_read)
                  ELSE 0] :
             r \in {x \in tables : x.heap_blks_hit + x.heap_blks_read > 0}}
        keys == << <<"hit_ratio_percent", "ASC">> >>
    IN  {Limit(rows, 20) : rows \in OrderBy(selected, keys)}

\* cache_hit.py lines 61-65: the CASE of index_heap_ratio_percent.  A
\* comparison with NULL is not true, so a table without index gets 0.
index_heap_ratio_percent_of_heap(heap_blocks, index_blocks) ==
    IF IsPositive(Plus(<<heap_blocks>>, index_blocks))
    THEN round_percent(index_blocks[1], heap_blocks)
    ELSE 0

index_heap_ratio_percent(heap_blocks, index_blocks) ==
    IF IsPositive(Plus(<<heap_blocks>>, index_blocks))
    THEN round_percent(index_blocks[1], heap_blocks + index_blocks[1])
    ELSE 0

\* cache_hit.py lines 53-73.
get_index_heap_ratio(tables) ==
    LET selected ==
            {[schemaname |-> r.schemaname,
              tablename |-> r.relname,
              heap_blocks |-> r.heap_blks_hit + r.heap_blks_read,
              index_blocks |-> Plus(r.idx_blks_hit, r.idx_blks_read),
              index_heap_ratio_percent |->
                  index_heap_ratio_percent(
                      r.heap_blks_hit + r.heap_blks_read,
                      Plus(r.idx_blks_hit, r.idx_blks_read))] :
             r \in {x \in tables : x.heap_blks_hit + x.heap_blks_read > 0}}
        keys == << <<"index_heap_ratio_percent", "DESC">> >>
    IN  {Limit(rows, 20) : rows \in OrderBy(selected, keys)}

TotalCacheHitRatio ==
    /\ call = NoCall
    /\ \E snapshot \in Snapshots(pg_stat_database) :
        /\ call' = [fn |-> "get_total_cache_hit_ratio",
                    snapshot |-> snapshot]
        /\ answer' = get_total_cache_hit_ratio(snapshot)
    /\ UNCHANGED run

PerTableCacheHitRatio ==
    /\ call = NoCall
    /\ \E snapshot \in Snapshots(pg_statio_user_tables)
                          \cup large_pg_statio_user_tables :
        /\ call' = [fn |-> "get_per_table_cache_hit_ratio",
                    snapshot |-> snapshot]
        /\ answer' \in get_per_table_cache_hit_ratio(snapshot)
    /\ UNCHANGED run

IndexHeapRatio ==
    /\ call = NoCall
    /\ \E snapshot \in Snapshots(pg_statio_user_tables)
                          \cup large_pg_statio_user_tables :
        /\ call' = [fn |-> "get_index_heap_ratio", snapshot |-> snapshot]
        /\ answer' \in get_index_heap_ratio(snapshot)
    /\ UNCHANGED run

\* pg_size_pretty(size), size >= 0: bytes below 10 kB, then the unit in
\* which the figure, rounded half up, is below 20 * 1024 - 1 halves.
half_rounded(x) == (x + 1) \div 2

pg_size_pretty(size) ==
    LET kB == size \div 512
        MB == kB \div 1024
        GB == MB \div 1024
        TB == GB \div 1024
    IN  IF size < 10240 THEN [n |-> size, unit |-> "bytes"]
        ELSE IF kB < 20479 THEN [n |-> half_rounded(kB), unit |-> "kB"]
        ELSE IF MB < 20479 THEN [n |-> half_rounded(MB), unit |-> "MB"]
        ELSE IF GB < 20479 THEN [n |-> half_rounded(GB), unit |-> "GB"]
        ELSE [n |-> half_rounded(TB), unit |-> "TB"]

\* The schemas the storage probes leave out.
system_schemas == {"information_schema", "pg_catalog"}

\* pg_database with pg_database_size(datname).
pg_database ==
    {[datname |-> 1, datistemplate |-> TRUE, size |-> 7000000],
     [datname |-> 2, datistemplate |-> FALSE, size |-> 8192000],
     [datname |-> 3, datistemplate |-> FALSE, size |-> 8192000],
     [datname |-> 4, datistemplate |-> FALSE, size |-> 10239],
     [datname |-> 5, datistemplate |-> FALSE, size |-> 900000000]}

\* A variant that sorts by size ascending.
get_database_storage_asc(databases) ==
    LET selected ==
            {[datname |-> r.datname,
              size_pretty |-> pg_size_pretty(r.size),
              size_bytes |-> r.size] :
             r \in {x \in databases : x.datistemplate = FALSE}}
        keys == << <<"size_bytes", "ASC">> >>
    IN  OrderBy(selected, keys)

\* storage_usage.py lines 21-34.
get_database_storage(databases) ==
    LET selected ==
            {[datname |-> r.datname,
              size_pretty |-> pg_size_pretty(r.size),
              size_bytes |-> r.size] :
             r \in {x \in databases : x.datistemplate = FALSE}}
        keys == << <<"size_bytes", "DESC">> >>
    IN  OrderBy(selected, keys)

\* pg_tables joined with pg_stat_all_tables (n_live_tup) and pg_class
\* (reltuples), and the sizes of the relation: total is
\* pg_total_relation_size, heap is pg_relation_size.
TableSize(schemaname, tablename, total, heap, n_live_tup, reltuples) ==
    [schemaname |-> schemaname, tablename |-> tablename, total |-> total,
     heap |-> heap, n_live_tup |-> n_live_tup, reltuples |-> reltuples]

pg_tables ==
    {TableSize("public", 1, 24576, 8192, <<10>>, <<10>>),
     TableSize("public", 2, 24576, 16384, <<0>>, <<7>>),
     TableSize("public", 3, 8192000, 8000000, Null, <<0>>),
     TableSize("pg_catalog", 4, 900000, 800000, <<50>>, <<50>>),
     TableSize("information_schema", 5, 8192, 8192, <<0>>, <<0>>),
     TableSize("public", 6, 0, 0, <<0>>, <<-1>>)}

\* More tables than LIMIT 50, of 8 kB pages.
large_pg_tables ==
    {{TableSize("public", 100 + i, 8192 * KeyOf(i, sh[2]),
                8192 * KeyOf(i, sh[2]), <<1>>, <<1>>) : i \in 1..sh[1]} :
     sh \in LargeShapes(50)}

\* COALESCE(NULLIF(n_live_tup, 0), NULLIF(reltuples::bigint, 0), 0)
row_count(n_live_tup, reltuples) ==
    IF ~IsNull(nullif_0(n_live_tup)) THEN n_live_tup[1]
    ELSE IF ~IsNull(nullif_0(reltuples)) THEN reltuples[1]
    ELSE 0

\* storage_usage.py lines 36-61.
get_table_storage(tables) ==
    LET selected ==
            {[schemaname |-> r.schemaname,
              tablename |-> r.tablename,
              total_size_pretty |-> pg_size_pretty(r.total),
              table_size_pretty |-> pg_size_pretty(r.heap),
              index_size_pretty |-> pg_size_pretty(r.total - r.heap),
              total_size_bytes |-> r.total,
              table_size_bytes |-> r.heap,
              row_count |-> row_count(r.n_live_tup, r.reltuples)] :
             r \in {x \in tables : x.schemaname \notin system_schemas}}
        keys == << <<"total_size_bytes", "DESC">> >>
    IN  {Limit(rows, 50) : rows \in OrderBy(selected, keys)}

\* pg_indexes with pg_relation_size of the index.
pg_indexes ==
    {[schemaname |-> "public", indexname |-> 1, tablename |-> 1,
      size |-> 16384],
     [schemaname |-> "public", indexname |-> 2, tablename |-> 2,
      size |-> 8192],
     [schemaname |-> "public", indexname |-> 3, tablename |-> 2,
      size |-> 16384],
     [schemaname |-> "pg_catalog", indexname |-> 4, tablename |-> 4,
      size |-> 100000],
     [schemaname |-> "public", indexname |-> 5, tablename |-> 3,
      size |-> 192000],
     [schemaname |-> "public", indexname |-> 6, tablename |-> 6,
      size |-> 0]}

\* More indexes than LIMIT 20.
large_pg_indexes ==
    {{[schemaname |-> "public", indexname |-> 100 + i,
       tablename |-> 100 + i, size |-> 8192 * KeyOf(i, sh[2])] :
         i \in 1..sh[1]} :
     sh \in LargeShapes(20)}

\* storage_usage.py lines 63-79.
get_index_storage(indexes) ==
    LET selected ==
            {[schemaname |-> r.schemaname,
              indexname |-> r.indexname,
              tablename |-> r.tablename,
              size_pretty |-> pg_size_pretty(r.size),
              size_bytes |-> r.size] :
             r \in {x \in indexes : x.schemaname \notin system_schemas}}
        keys == << <<"size_bytes", "DESC">> >>
    IN  {Limit(rows, 20) : rows \in OrderBy(selected, keys)}

\* pg_class c JOIN pg_index ix JOIN pg_class i JOIN pg_namespace n LEFT
\* JOIN pg_stat_user_indexes s: an index (indexname) of a table of two
\* indexes, the table's schema and kind, the index's size and its
\* counters, NULL where s has no row for it.
IndexUse(nspname, relkind, indexname, size, idx_scan, read, fetch) ==
    [nspname |-> nspname, relkind |-> relkind,
     tablename |-> (indexname + 1) \div 2, indexname |-> indexname,
     size |-> size, idx_scan |-> idx_scan,
     idx_tup_read |-> read, idx_tup_fetch |-> fetch]

index_joins ==
    {IndexUse("public", "r", 1, 16384, <<0>>, <<0>>, <<0>>),
     IndexUse("public", "r", 2, 8192, <<100>>, <<1000>>, <<50>>),
     IndexUse("public", "r", 3, 16384, <<100>>, <<1000>>, <<500>>),
     IndexUse("public", "p", 4, 0, Null, Null, Null),
     IndexUse("pg_catalog", "r", 5, 100000, <<900>>, <<900>>, <<900>>),
     IndexUse("public", "m", 6, 8192, <<7>>, <<7>>, <<7>>),
     IndexUse("public", "r", 7, 8192, <<100>>, <<10>>, <<10>>)}

\* More indexes than LIMIT 50, of one size.
large_index_joins ==
    {{IndexUse("public", "r", 100 + i, 8192, <<KeyOf(i, sh[2])>>,
               <<KeyOf(i, sh[2])>>, <<KeyOf(i, sh[2])>>) : i \in 1..sh[1]} :
     sh \in LargeShapes(50)}

\* COALESCE(x, 0)
coalesce_0(x) == IF IsNull(x) THEN 0 ELSE x[1]

\* storage_usage.py lines 81-105.
get_index_usage(joins) ==
    LET selected ==
            {[schemaname |-> r.nspname,
              tablename |-> r.tablename,
              indexname |-> r.indexname,
              size_pretty |-> pg_size_pretty(r.size),
              size_bytes |-> r.size,
              idx_scan |-> coalesce_0(r.idx_scan),
              idx_tup_read |-> coalesce_0(r.idx_tup_read),
              idx_tup_fetch |-> coalesce_0(r.idx_tup_fetch)] :
             r \in {x \in joins : /\ x.nspname \notin system_schemas
                                  /\ x.relkind \in {"r", "p"}}}
        keys == << <<"idx_scan", "DESC">>, <<"size_bytes", "DESC">> >>
    IN  {Limit(rows, 50) : rows \in OrderBy(selected, keys)}

DatabaseStorage ==
    /\ call = NoCall
    /\ \E snapshot \in Snapshots(pg_database) :
        /\ call' = [fn |-> "get_database_storage", snapshot |-> snapshot]
        /\ answer' \in get_database_storage(snapshot)
    /\ UNCHANGED run

TableStorage ==
    /\ call = NoCall
    /\ \E snapshot \in Snapshots(pg_tables) \cup large_pg_tables :
        /\ call' = [fn |-> "get_table_storage", snapshot |-> snapshot]
        /\ answer' \in get_table_storage(snapshot)
    /\ UNCHANGED run

IndexStorage ==
    /\ call = NoCall
    /\ \E snapshot \in Snapshots(pg_indexes) \cup large_pg_indexes :
        /\ call' = [fn |-> "get_index_storage", snapshot |-> snapshot]
        /\ answer' \in get_index_storage(snapshot)
    /\ UNCHANGED run

IndexUsage ==
    /\ call = NoCall
    /\ \E snapshot \in Snapshots(index_joins) \cup large_index_joins :
        /\ call' = [fn |-> "get_index_usage", snapshot |-> snapshot]
        /\ answer' \in get_index_usage(snapshot)
    /\ UNCHANGED run

\* The pg_indexes view over the indexes of the joins: every index of a
\* table, a partitioned table or a materialized view.
pg_indexes_of(joins) ==
    {[schemaname |-> x.nspname, indexname |-> x.indexname,
      tablename |-> x.tablename, size |-> x.size] : x \in joins}

\* One index more than LIMIT 50, every one scanned and the least scanned
\* the largest.
crowded_index_joins ==
    {IndexUse("public", "r", 200 + i, 8192 * (52 - i), <<i>>, <<10 * i>>, <<i>>) :
        i \in 1..(50 + 1)}

\* pdf_generator.py lines 702-705 and 717-718: the entry of usage_map under
\* (schema, indexname), the last of usage_list with that key; <<>> when
\* the key is not in the map.  str() of a name is the name.
usage_map(usage_list, schema, indexname) ==
    LET hits == {i \in DOMAIN usage_list :
                    /\ usage_list[i].schemaname = schema
                    /\ usage_list[i].indexname = indexname}
    IN  IF hits = {} THEN <<>>
        ELSE <<usage_list[CHOOSE i \in hits : \A j \in hits : j <= i]>>

\* pdf_generator.py lines 698-726: the Schema.Index, Scans and Status
\* columns of the index storage table, one row for each of the first 15
\* rows of index_data; an index without entry in usage_map keeps scans,
\* tup_read and tup_fetch at 0 and size_bytes at None.
index_table(index_data, usage_list) ==
    [k \in 1..(IF Len(index_data) < 15 THEN Len(index_data) ELSE 15) |->
        LET row   == index_data[k]
            entry == usage_map(usage_list, row.schemaname, row.indexname)
            found == entry # <<>>
            scans      == PyValue("int", IF found THEN 100 * entry[1].idx_scan ELSE 0)
            tup_read   == PyValue("int", IF found THEN 100 * entry[1].idx_tup_read ELSE 0)
            tup_fetch  == PyValue("int", IF found THEN 100 * entry[1].idx_tup_fetch ELSE 0)
            size_bytes == IF found THEN PyValue("int", 100 * entry[1].size_bytes)
                          ELSE None
        IN  [schemaname |-> row.schemaname, indexname |-> row.indexname,
             scans |-> int(scans).n,
             status |-> _get_index_status(scans, tup_read, tup_fetch, size_bytes)]]

\* get_storage_usage's two index probes over one state of the catalog
\* (storage_usage.py lines 15-16), then the index storage table the renderer
\* builds from their rows.
IndexStorageTable ==
    /\ call = NoCall
    /\ \E snapshot \in Snapshots(index_joins) \cup {crowded_index_joins} :
        \E indexes \in get_index_storage(pg_indexes_of(snapshot)),
           index_usage \in get_index_usage(snapshot) :
            /\ call' = [fn |-> "_create_storage_tables", snapshot |-> snapshot]
            /\ answer' = index_table(indexes, index_usage)
    /\ UNCHANGED run

\* The probes' queries, each executed over any snapshot, before a run, and
\* the index storage table built from two of them.
QueryNext ==
    \/ LongQueries
    \/ FrequentQueries
    \/ TotalCacheHitRatio
    \/ PerTableCacheHitRatio
    \/ IndexHeapRatio
    \/ DatabaseStorage
    \/ TableStorage
    \/ IndexStorage
    \/ IndexUsage
    \/ IndexStorageTable

QueryInit == ClassifierInit

QuerySpec == QueryInit /\ [][QueryNext]_vars

----------------------------------------------------------------------------
(* Properties of the probes' queries.                                      *)

\* The rows of a returned sequence.
Rows(rows) == {rows[i] : i \in DOMAIN rows}

\* C16: get_long_queries returns a statement only if its mean_exec_time is
\* strictly above 600 ms: statements at 599 ms and at 600 ms are left out,
\* one at 600.0001 ms is returned.
C16_LongQueriesAboveThreshold ==
    Called("get_long_queries")
        => /\ \A r \in Rows(answer) : r.mean_exec_time > 6000000
           /\ \A x \in call.snapshot :
                 x.mean_exec_time = 6000001
                    => \E r \in Rows(answer) : r.query = x.query

\* The statements at 599 ms, 600 ms and 600.0001 ms were probed and the
\* last one alone came back.
C16_Witness ==
    /\ Called("get_long_queries")
    /\ {x.mean_exec_time : x \in call.snapshot}
           = {5990000, 6000000, 6000001}
    /\ Len(answer) = 1
    /\ answer[1].mean_exec_time = 6000001

\* C17: the total cache row has ratio = hits / (hits + reads), between 0
\* and 1, when hits + reads > 0, and a NULL ratio, no division error,
\* when hits + reads = 0.
C17_TotalRatio ==
    Called("get_total_cache_hit_ratio")
        => LET hits  == answer[1]
               reads == answer[2]
               ratio == answer[3]
           IN  /\ (~IsNull(hits) /\ hits[1] + reads[1] > 0)
                     => /\ ~IsNull(ratio)
                        /\ ratio[1].den > 0
                        /\ ratio[1].num * (hits[1] + reads[1])
                               = hits[1] * ratio[1].den
                        /\ 0 <= ratio[1].num
                        /\ ratio[1].num <= ratio[1].den
               /\ (~IsNull(hits) /\ hits[1] + reads[1] = 0)
                     => IsNull(ratio)

\* Databases that have read no block were probed: the ratio is NULL.
C17_Witness ==
    /\ Called("get_total_cache_hit_ratio")
    /\ call.snapshot # {}
    /\ answer = << <<0>>, <<0>>, Null >>

\* C18: every row of the per-table cache probe has heap_hits + heap_reads
\* > 0 and hit_ratio_pct = heap_hits / (heap_hits + heap_reads) * 100
\* rounded to two decimals, between 0 and 100; a table whose heap was
\* never accessed is not returned.
C18_PerTableRatio ==
    Called("get_per_table_cache_hit_ratio")
        => /\ \A r \in Rows(answer) :
                 /\ r.heap_blks_hit + r.heap_blks_read > 0
                 /\ IsNearest(r.hit_ratio_percent, r.heap_blks_hit * 100,
                              r.heap_blks_hit + r.heap_blks_read)
                 /\ 0 <= r.hit_ratio_percent
                 /\ r.hit_ratio_percent <= 10000
           /\ \A x \in call.snapshot :
                 x.heap_blks_hit + x.heap_blks_read = 0
                    => \A r \in Rows(answer) : r.tablename # x.relname

\* A table with 2 hits in 3 heap blocks came back at 66.67 % while a
\* table never accessed was left out.
C18_Witness ==
    /\ Called("get_per_table_cache_hit_ratio")
    /\ \E x \in call.snapshot : x.heap_blks_hit + x.heap_blks_read = 0
    /\ \E r \in Rows(answer) :
          /\ r.heap_blks_hit = 2
          /\ r.heap_blks_read = 1
          /\ r.hit_ratio_percent = 6667

\* C19: every row of the index/heap probe has 0 <= index_ratio_pct <= 100,
\* the rounded index_blocks / (heap_blocks + index_blocks) * 100, also for
\* a table without index: its index_blocks is NULL and its ratio 0.
C19_IndexHeapRatio ==
    Called("get_index_heap_ratio")
        => \A r \in Rows(answer) :
              /\ 0 <= r.index_heap_ratio_percent
              /\ r.index_heap_ratio_percent <= 10000
              /\ r.heap_blocks > 0
              /\ ~IsNull(r.index_blocks)
                    => IsNearest(r.index_heap_ratio_percent,
                                 r.index_blocks[1] * 100,
                                 r.heap_blocks + r.index_blocks[1])
              /\ IsNull(r.index_blocks) => r.index_heap_ratio_percent = 0

\* A table without index and a table with more index blocks than heap
\* blocks came back.
C19_Witness ==
    /\ Called("get_index_heap_ratio")
    /\ \E r \in Rows(answer) :
          IsNull(r.index_blocks) /\ r.index_heap_ratio_percent = 0
    /\ \E r \in Rows(answer) :
          /\ ~IsNull(r.index_blocks)
          /\ r.index_blocks[1] > r.heap_blocks
          /\ r.index_heap_ratio_percent = 6667

\* The returned rows are in descending order of a column.
Descending(rows, column) ==
    \A i, j \in DOMAIN rows : i < j => rows[i][column] >= rows[j][column]

Ascending(rows, column) ==
    \A i, j \in DOMAIN rows : i < j => rows[i][column] <= rows[j][column]

\* C20: the rows of a probe come in the order of its sort key:
\* mean_exec_time descending, calls descending, hit_ratio_pct ascending,
\* index_heap_ratio_pct descending, size_bytes descending for databases,
\* total bytes descending for tables, size_bytes descending for indexes,
\* idx_scan descending then size_bytes descending for the index usage.
C20_RowsInSortOrder ==
    /\ Called("get_long_queries") => Descending(answer, "mean_exec_time")
    /\ Called("get_frequent_queries") => Descending(answer, "calls")
    /\ Called("get_per_table_cache_hit_ratio")
          => Ascending(answer, "hit_ratio_percent")
    /\ Called("get_index_heap_ratio")
          => Descending(answer, "index_heap_ratio_percent")
    /\ Called("get_database_storage") => Descending(answer, "size_bytes")
    /\ Called("get_table_storage")
          => Descending(answer, "total_size_bytes")
    /\ Called("get_index_storage") => Descending(answer, "size_bytes")
    /\ Called("get_index_usage")
          => /\ Descending(answer, "idx_scan")
             /\ \A i, j \in DOMAIN answer :
                   (i < j /\ answer[i].idx_scan = answer[j].idx_scan)
                      => answer[i].size_bytes >= answer[j].size_bytes

\* Three indexes came back, two of them with 100 scans each and the
\* larger of the two first.
C20_Witness ==
    /\ Called("get_index_usage")
    /\ Len(answer) = 3
    /\ answer[1].idx_scan = 100
    /\ answer[2].idx_scan = 100
    /\ answer[1].size_bytes > answer[2].size_bytes
    /\ answer[3].idx_scan < 100

----------------------------------------------------------------------------
(* Top-N and order of the probes' rows.                                    *)

\* The probes with a LIMIT, and the number of rows each may return.
LimitedProbes ==
    {"get_long_queries", "get_frequent_queries",
     "get_per_table_cache_hit_ratio", "get_index_heap_ratio",
     "get_table_storage", "get_index_storage", "get_index_usage"}

TopN(fn) ==
    IF fn \in {"get_long_queries", "get_frequent_queries"} THEN 10
    ELSE IF fn \in {"get_table_storage", "get_index_usage"} THEN 50
    ELSE 20

\* The rows of the snapshot that pass the probe's filter.
Eligible ==
    IF Called("get_long_queries")
    THEN {x \in call.snapshot : x.mean_exec_time > 6000000}
    ELSE IF Called("get_per_table_cache_hit_ratio")
            \/ Called("get_index_heap_ratio")
    THEN {x \in call.snapshot : x.heap_blks_hit + x.heap_blks_read > 0}
    ELSE IF Called("get_table_storage") \/ Called("get_index_storage")
    THEN {x \in call.snapshot :
             x.schemaname \notin {"information_schema", "pg_catalog"}}
    ELSE IF Called("get_index_usage")
    THEN {x \in call.snapshot :
             /\ x.nspname \notin {"information_schema", "pg_catalog"}
             /\ x.relkind \in {"r", "p"}}
    ELSE call.snapshot

\* The sort key of a row of the snapshot as a pair to be compared in
\* descending order (an ascending key is negated).
SortKey(x) ==
    IF Called("get_long_queries") THEN <<x.mean_exec_time, 0>>
    ELSE IF Called("get_frequent_queries") THEN <<x.calls, 0>>
    ELSE IF Called("get_per_table_cache_hit_ratio")
    THEN << -RoundHalfUp(x.heap_blks_hit * 10000,
                         x.heap_blks_hit + x.heap_blks_read), 0>>
    ELSE IF Called("get_index_heap_ratio")
    THEN IF IsNull(x.idx_blks_hit) \/ IsNull(x.idx_blks_read) THEN <<0, 0>>
         ELSE <<RoundHalfUp(
                    (x.idx_blks_hit[1] + x.idx_blks_read[1]) * 10000,
                    x.heap_blks_hit + x.heap_blks_read
                        + x.idx_blks_hit[1] + x.idx_blks_read[1]), 0>>
    ELSE IF Called("get_table_storage") THEN <<x.total, 0>>
    ELSE IF Called("get_index_usage")
    THEN <<IF IsNull(x.idx_scan) THEN 0 ELSE x.idx_scan[1], x.size>>
    ELSE <<x.size, 0>>

\* x sorts strictly before y in the probe's order.
SortsBefore(x, y) ==
    \/ SortKey(x)[1] > SortKey(y)[1]
    \/ SortKey(x)[1] = SortKey(y)[1] /\ SortKey(x)[2] > SortKey(y)[2]

\* The name by which a row of the snapshot appears in the answer.
NameOf(x) ==
    IF Called("get_long_queries") \/ Called("get_frequent_queries")
    THEN x.query
    ELSE IF Called("get_per_table_cache_hit_ratio")
            \/ Called("get_index_heap_ratio")
    THEN x.relname
    ELSE IF Called("get_table_storage") THEN x.tablename
    ELSE IF Called("get_database_storage") THEN x.datname
    ELSE x.indexname

ReturnedNames ==
    IF Called("get_long_queries") \/ Called("get_frequent_queries")
    THEN {r.query : r \in Rows(answer)}
    ELSE IF Called("get_per_table_cache_hit_ratio")
            \/ Called("get_index_heap_ratio") \/ Called("get_table_storage")
    THEN {r.tablename : r \in Rows(answer)}
    ELSE IF Called("get_database_storage")
    THEN {r.datname : r \in Rows(answer)}
    ELSE {r.indexname : r \in Rows(answer)}

\* C21: a limited probe returns at most its Top-N rows, and they are the
\* first N of the filtered rows in its sort order: as many as there are
\* up to N, each of them a filtered row, and no omitted row sorts strictly
\* before a returned one.
C21_TopN ==
    call.fn \in LimitedProbes
        => /\ Len(answer) <= TopN(call.fn)
           /\ Len(answer) = Cardinality(ReturnedNames)
           /\ ReturnedNames \subseteq {NameOf(x) : x \in Eligible}
           /\ Cardinality(Eligible) <= TopN(call.fn)
                 => Len(answer) = Cardinality(Eligible)
           /\ Cardinality(Eligible) > TopN(call.fn)
                 => Len(answer) = TopN(call.fn)
           /\ \A x, y \in Eligible :
                 (NameOf(y) \in ReturnedNames /\ NameOf(x) \notin ReturnedNames)
                    => ~SortsBefore(x, y)

\* 22 tables had index and heap blocks and the probe returned 20 of them.
C21_Witness ==
    /\ Called("get_index_heap_ratio")
    /\ Cardinality(Eligible) = 22
    /\ Len(answer) = 20

\* The probes that execute a query.
SqlProbes ==
    LimitedProbes \cup {"get_total_cache_hit_ratio", "get_database_storage"}

\* The answers the probe's query can give over the snapshot of the call.
PossibleAnswers ==
    IF Called("get_long_queries")
    THEN get_long_queries(call.snapshot, default_threshold_ms,
                          default_limit)
    ELSE IF Called("get_frequent_queries")
    THEN get_frequent_queries(call.snapshot, default_limit)
    ELSE IF Called("get_total_cache_hit_ratio")
    THEN {get_total_cache_hit_ratio(call.snapshot)}
    ELSE IF Called("get_per_table_cache_hit_ratio")
    THEN get_per_table_cache_hit_ratio(call.snapshot)
    ELSE IF Called("get_index_heap_ratio")
    THEN get_index_heap_ratio(call.snapshot)
    ELSE IF Called("get_database_storage")
    THEN get_database_storage(call.snapshot)
    ELSE IF Called("get_table_storage")
    THEN get_table_storage(call.snapshot)
    ELSE IF Called("get_index_storage")
    THEN get_index_storage(call.snapshot)
    ELSE get_index_usage(call.snapshot)

\* C22: the row sequence a probe returns is a function of the snapshot
\* alone: a second run over the same snapshot returns the same sequence,
\* also when rows have equal sort keys and when the LIMIT cuts between
\* such rows.
C22_RowsDeterminedBySnapshot ==
    call.fn \in SqlProbes => \A other \in PossibleAnswers : other = answer

----------------------------------------------------------------------------
(* The formatted time columns.                                             *)

\* r is num / den with two decimals: the hundredth below or above it,
\* whichever is nearer.
IsTwoDecimals(r, num, den) ==
    LET q == num \div den
        m == num % den
    IN  \/ r = q /\ 2 * m <= den
        \/ r = q + 1 /\ 2 * m >= den

\* f renders the time total / calls (ten-thousandths of a millisecond):
\* minutes from 60000 ms, seconds from 1000 ms, milliseconds below.
IsTimeFormat(f, total, calls) ==
    LET v == total \div calls
    IN  /\ v >= 600000000
            => f.suffix = "m"
               /\ IsTwoDecimals(f.hundredths, total, calls * 6000000)
        /\ (10000000 <= v /\ v < 600000000)
            => f.suffix = "s"
               /\ IsTwoDecimals(f.hundredths, total, calls * 100000)
        /\ v < 10000000
            => f.suffix = "ms"
               /\ IsTwoDecimals(f.hundredths, total, calls * 100)

Rendered(hundredths, suffix) ==
    [hundredths |-> hundredths, suffix |-> suffix]

\* C23: the formatted time columns follow one rule (minutes from 60000
\* ms, seconds from 1000 ms, milliseconds below, two decimals each):
\* 60000 gives 1.00m, 1000 gives 1.00s, 999 gives 999.00ms, 0 gives
\* 0.00ms; the per-call average applies it to total / calls when calls >
\* 0 and is '0ms' when calls = 0.
C23_TimeFormat ==
    /\ Called("get_long_queries")
          => \A r \in Rows(answer) :
                /\ IsTimeFormat(r.total_time_formatted, r.total_exec_time, 1)
                /\ IsTimeFormat(r.mean_time_formatted, r.mean_exec_time, 1)
                /\ r.mean_exec_time = 600000000
                      => r.mean_time_formatted = Rendered(100, "m")
                /\ r.mean_exec_time = 10000000
                      => r.mean_time_formatted = Rendered(100, "s")
    /\ Called("get_frequent_queries")
          => \A r \in Rows(answer) :
                /\ IsTimeFormat(r.total_time_formatted, r.total_exec_time, 1)
                /\ r.calls > 0
                      => IsTimeFormat(r.avg_time_per_call,
                                      r.total_exec_time, r.calls)
                /\ r.calls = 0
                      => r.avg_time_per_call = Rendered(0, "0ms")
                /\ r.total_exec_time = 600000000
                      => r.total_time_formatted = Rendered(100, "m")
                /\ r.total_exec_time = 10000000
                      => r.total_time_formatted = Rendered(100, "s")
                /\ r.total_exec_time = 9990000
                      => r.total_time_formatted = Rendered(99900, "ms")
                /\ r.total_exec_time = 0
                      => r.total_time_formatted = Rendered(0, "ms")

\* The statement never executed and the single calls of 1000 ms and of
\* 60000 ms came back as 0.00ms with an average of 0ms, 1.00s and 1.00m.
C23_Witness ==
    /\ Called("get_frequent_queries")
    /\ \E r \in Rows(answer) :
          /\ r.calls = 0
          /\ r.total_time_formatted = Rendered(0, "ms")
          /\ r.avg_time_per_call = Rendered(0, "0ms")
    /\ \E r \in Rows(answer) :
          /\ r.total_exec_time = 10000000
          /\ r.avg_time_per_call = Rendered(100, "s")
    /\ \E r \in Rows(answer) :
          /\ r.total_exec_time = 600000000
          /\ r.total_time_formatted = Rendered(100, "m")

----------------------------------------------------------------------------
(* The run with the optional SSH keys of the descriptor.                   *)

\* Descriptors with every required key, a local or a remote host, and any
\* combination of the optional keys.
SshConfigs == {Descriptor(h, o) : h \in {h_localhost, h_remote}, o \in SshOptions}

SshInit ==
    /\ config \in SshConfigs
    /\ dbRows = 0
    /\ pc = main[1].fn
    /\ conn = FALSE
    /\ pgOpen = 0
    /\ pgOpened = 0
    /\ ssh = "none"
    /\ io = [connect |-> "none", top |-> NotRun, free |-> NotRun]
    /\ local = <<>>
    /\ report_data = <<>>
    /\ warnings = <<>>
    /\ trace = <<>>
    /\ log = <<>>
    /\ call = NoCall
    /\ answer = NoCall

SshSpec == SshInit /\ [][Next]_vars

\* The entries of the log with the given operation.
Entries(op) == {i \in DOMAIN log : log[i].op = op}

\* The remote probe has been called so many times.
RemoteCalls ==
    Cardinality({i \in DOMAIN trace :
                    trace[i] = Event("call", "_get_remote_system_metrics")})

\* An optional key is configured when the file gives it a non-empty value.
IsConfigured(option) == option # Absent /\ option # <<"">>

\* C24: every ssh.connect call of the remote probe is given the key file and
\* no password when ssh_key is configured, whether or not ssh_password is set
\* and whatever the server answers, and the password and no key file when
\* ssh_key is not configured; its user is ssh_user, or postgres when ssh_user
\* is not configured; there is exactly one ssh.connect call per call of the
\* probe.
C24_KeyBeforePassword ==
    /\ \A i \in Entries("ssh.connect") :
        LET options == log[i].db.ssh
            args    == log[i].args
        IN  /\ IsConfigured(options.ssh_key) =>
                  /\ args.key_filename = options.ssh_key
                  /\ args.password = Absent
            /\ ~IsConfigured(options.ssh_key) =>
                  /\ args.key_filename = Absent
                  /\ args.password = options.ssh_password
            /\ args.username = IF options.ssh_user = Absent
                               THEN <<"postgres">> ELSE options.ssh_user
    /\ Cardinality(Entries("ssh.connect")) = RemoteCalls

\* The server refused the key of a descriptor that names a key file and a
\* password, and the probe has returned.
C24_Witness ==
    /\ io.connect = "auth"
    /\ pc \notin {"_get_remote_system_metrics", "crashed"}
    /\ IsConfigured(config.ssh.ssh_key)
    /\ IsConfigured(config.ssh.ssh_password)
    /\ Cardinality(Entries("ssh.connect")) = 1
    /\ \A i \in Entries("ssh.connect") : log[i].args.password = Absent

----------------------------------------------------------------------------
\* The summary was asked for over a total cache row whose ratio is null.
NullRatioSummary ==
    /\ Called("_create_executive_summary")
    /\ Len(call.args[1].total_cache) = 3
    /\ call.args[1].total_cache[3] = None

\* C25: building the executive summary over a total cache row whose ratio
\* is null does not raise; the cache ratio counts as 0 and the cache-hit
\* status is the classifier's label for 0.
C25_NullRatioCountsAsZero ==
    NullRatioSummary =>
        /\ answer.exception = "none"
        /\ answer.status[4] = _status_higher_is_better(PyValue("int", 0), 90, 80)

----------------------------------------------------------------------------
(* The run while another process rewrites config/db_config.yaml.  Every    *)
(* reader opens the file when it is called (db_connection.py line 7,       *)
(* cpu_ram.py lines 33 and 46, pdf_generator.py line 144), so each reads   *)
(* what the file holds at that moment.                                     *)

\* Rewrites of the file during one run.
MaxWrites == 1

\* A descriptor with a key file, a password and a user.
KeyAndPassword ==
    [ssh_user |-> <<"admin">>, ssh_password |-> <<"secret">>,
     ssh_key |-> <<"/keys/id_rsa">>]

\* What the file holds at the start and what it is rewritten to.
FileConfigs ==
    {Descriptor(h_localhost, NoSsh), Descriptor(h_remote, KeyAndPassword)}

\* Another process replaces the content of the file.
ModifyFile ==
    /\ pc \notin {"done", "crashed"}
    /\ Cardinality(Entries("write")) < MaxWrites
    /\ \E db \in FileConfigs \ {config} :
        /\ config' = db
        /\ log' = Append(log, LogEntry("write", "another process", db, NoArgs))
    /\ UNCHANGED <<call, answer, dbRows, pc, conn, pgOpen, pgOpened, ssh, io,
                   local, report_data, warnings, trace>>

FileInit ==
    /\ SshInit
    /\ config \in FileConfigs

FileNext ==
    \/ Next
    \/ ModifyFile

FileSpec == FileInit /\ [][FileNext]_vars

\* C26: within one run, every database session, the topology decision, the
\* SSH connection and the report header use the same descriptor, also when
\* the file is rewritten during the run.
C26_OneDescriptorPerRun ==
    \A i, j \in Entries("read") \cup Entries("ssh.connect") :
        log[i].db = log[j].db

----------------------------------------------------------------------------
\* C27: every record the remote strategy returns has its five fields at
\* least 0 and its two percentages at most 100, whatever top and free -m
\* printed (an idle value above 100 and used above total included).
C27_RemoteMetricsInRange ==
    RemoteReturned =>
        /\ \A k \in DOMAIN system_metrics : system_metrics[k] >= 0
        /\ system_metrics.system_cpu_percent <= 100 * 100
        /\ system_metrics.system_ram_percent <= 100 * 100

----------------------------------------------------------------------------
(* get_cpu_ram_usage on a remote host.                                     *)

SystemKeys ==
    {"system_cpu_percent", "system_ram_percent", "system_ram_total_gb",
     "system_ram_used_gb", "system_ram_available_gb"}

PostgresKeys ==
    {"postgres_db_size", "postgres_shared_buffers_mb", "postgres_work_mem_mb",
     "postgres_maintenance_work_mem_mb", "postgres_active_connections",
     "postgres_active_queries"}

\* The descriptor can be read and names a host outside the localhost list.
ReadableRemote ==
    /\ config.file
    /\ "host" \in config.keys
    /\ config.host \notin {h_localhost, h_127_0_0_1, h_0_0_0_1, h_v6_loop}

\* get_cpu_ram_usage returned and main() assigned its section.
CpuRamAssigned == HasKey(report_data, "CPU/RAM Usage")

CpuRam == Get(report_data, "CPU/RAM Usage")

\* The part of a record under the given keys.
Part(record, keys) == [k \in keys |-> record[k]]

\* The handler of get_postgres_server_metrics ran.
PostgresProbeFailed == \E i \in DOMAIN warnings : warnings[i] = "postgres"

\* C28: with a readable descriptor and a remote host, none of the functions
\* of get_cpu_ram_usage raises, and the section it returns has exactly the
\* five system_* and the six postgres_* keys, eleven in all; a failed
\* postgres_server_metrics probe gives the default record and a failed host
\* probe the zero record, and each of the two parts is what its own probe
\* produced whether or not the other probe failed.
C28_CpuRamAlwaysElevenKeys ==
    ReadableRemote =>
        /\ \A i \in DOMAIN get_cpu_ram_usage : ~Raised(get_cpu_ram_usage[i].fn)
        /\ CpuRamAssigned =>
              /\ DOMAIN CpuRam = SystemKeys \cup PostgresKeys
              /\ SystemKeys \cap PostgresKeys = {}
              /\ Cardinality(DOMAIN CpuRam) = 5 + 6
              /\ Part(CpuRam, PostgresKeys) =
                    IF PostgresProbeFailed THEN DefaultPgMetrics
                    ELSE Fetched("get_postgres_server_metrics", dbRows)
              /\ IF RemoteRaised
                 THEN Part(CpuRam, SystemKeys) = ZeroMetrics
                 ELSE \E ram \in ram_percent(io.free.lines) :
                        Part(CpuRam, SystemKeys) =
                            remote_metrics(io.top.line, io.free.lines, ram)

\* The SSH connection was refused and the server probe succeeded: the
\* section holds the zero record next to the server's figures.
C28_Witness ==
    /\ ReadableRemote
    /\ CpuRamAssigned
    /\ io.connect = "unreachable"
    /\ ~PostgresProbeFailed
    /\ Part(CpuRam, SystemKeys) = ZeroMetrics
    /\ CpuRam.postgres_db_size = "7977 kB"

----------------------------------------------------------------------------
\* The index of the catalog a row of the index storage table stands for.
IndexOfRow(row) ==
    CHOOSE x \in call.snapshot :
        x.nspname = row.schemaname /\ x.indexname = row.indexname

\* C29: every row of the index storage table shows the index's own scan
\* count and the status of its own counters; a row says UNUSED or 0 scans
\* only if the index's idx_scan in the database is 0, also when the index
\* is not among the rows of the index usage probe.
C29_UnusedOnlyIfNeverScanned ==
    Called("_create_storage_tables") =>
        \A k \in DOMAIN answer :
            LET x == IndexOfRow(answer[k])
            IN  /\ (answer[k].status = "UNUSED" \/ answer[k].scans = 0)
                        => coalesce_0(x.idx_scan) = 0
                /\ answer[k].status =
                      _get_index_status(PyValue("int", 100 * coalesce_0(x.idx_scan)),
                                        PyValue("int", 100 * coalesce_0(x.idx_tup_read)),
                                        PyValue("int", 100 * coalesce_0(x.idx_tup_fetch)),
                                        PyValue("int", 100 * x.size))

----------------------------------------------------------------------------
\* C30: every step of a run, of a probe that succeeds or fails, leaves the
\* database as it was, and every statement a wired probe is about to
\* execute is a SELECT (no CREATE, COPY, INSERT, UPDATE or DELETE).
C30_ReadOnly ==
    [][/\ dbRows' = dbRows
       /\ (pc \in DbProbes /\ conn) =>
              \A i \in DOMAIN SqlOf(pc) : SqlOf(pc)[i].verb = "SELECT"]_vars

\* A run over a database that holds rows opened a session for each of its
\* eleven database probes and reached the end of main(), the server probe
\* having executed its two statements.
C30_Witness ==
    /\ pc = "done"
    /\ dbRows = MaxRows
    /\ pgOpened = Cardinality(DbProbes)
    /\ ~PostgresProbeFailed

====
